---------------------------- MODULE Spec2Model ----------------------------
(***************************************************************************)
(* Model of the rule-based recommendation engine of investAnalyze          *)
(* (src/utils/ai_predictor.py, class AIPredictor).                         *)
(*                                                                         *)
(* Numbers are exact fixed point instead of Python floats:                 *)
(*   scores                in half points      (total_score 3   -> 6)      *)
(*   confidence            in thousandths      (0.85            -> 850)    *)
(*   target multipliers    in thousandths      (1.10            -> 1100)   *)
(*   prices and NAVs       in hundredths       (110.00          -> 11000)  *)
(*   target_price          in 1/100000         (price * multiplier)        *)
(*   price_change          in tenths of a percent                          *)
(*   sentiment             in hundredths       (0.75            -> 75)     *)
(*   market cap            in units of 1e8, total assets in units of 1e6   *)
(*   volatility (equity)   in percent                                      *)
(* A ratio the code computes by a float division (volume trend, RSI,       *)
(* momentum, Sharpe) is kept as a numerator and a denominator and compared *)
(* by cross multiplication; the float outcomes inf and NaN of a division   *)
(* by zero are modelled as what the comparisons on them give.              *)
(***************************************************************************)
EXTENDS Integers, Sequences, FiniteSets, TLC

VARIABLES
    pc,      \* "idle" | "loop" | "returned" | "raised" | "edited" : position of
             \* the caller
    call,    \* the call in progress or just finished: [op, ...arguments]
    ret,     \* what the call returned (a record or a list of items)
    idx,     \* ranking loop: index of the next candidate of the universe
    recommendations,  \* ranking loop: the local list recommendations
    fetches, \* ranking loop: price-history fetches made for each candidate
    status,  \* ranking loop: "pending" | "skipped" | "ok" for each candidate
    last,    \* ranking loop: what the fetch of the last pass gave
    earlier  \* history: a call made earlier on the same AIPredictor, what it
             \* returned, and the number of calls made since (up to MaxBetween)

vars == <<pc, call, ret, idx, recommendations, fetches, status, last, earlier>>
loopvars == <<idx, recommendations, fetches, status, last>>

---------------------------------------------------------------------------
(* Python values *)

\* A value of an info dictionary: the key is absent, holds None, or a number.
Absent == [k |-> "absent", v |-> 0]
Null   == [k |-> "null", v |-> 0]
Num(n) == [k |-> "num", v |-> n]

\* dict.get(key, default)
Get(field, default) == IF field.k = "absent" THEN Num(default) ELSE field

\* Python truth value of a number or None
Truthy(x) == x.k = "num" /\ x.v # 0

Abs(n) == IF n < 0 THEN -n ELSE n
Min(a, b) == IF a < b THEN a ELSE b
Max(a, b) == IF a > b THEN a ELSE b

\* Mutant: the target is cut to whole currency units
TargetPrice_WholeUnits(price, target_multiplier) ==
    ((price * target_multiplier) \div 100000) * 100000

\* current_price * target_multiplier: a price in hundredths times a
\* multiplier in thousandths
TargetPrice(price, target_multiplier) == price * target_multiplier

\* list.append when the rule matched
AppendIf(list, cond, text) == IF cond THEN Append(list, text) ELSE list

---------------------------------------------------------------------------
(* _get_advanced_stock_analysis: indicators *)

\* stock_data is a price series, given by what pandas computes from it:
\*   bars          len(stock_data)
\*   close         stock_data['Close'].iloc[-1]
\*   sma_20/50     rolling(20/50).mean().iloc[-1] (read only when bars suffice)
\*   avg_gain/loss rolling(14).mean().iloc[-1] of the gains and of the losses
\*   avg_volume    Volume.rolling(20).mean().iloc[-1] (NaN under 20 bars)
\*   recent_volume Volume.iloc[-5:].mean()
\*   volatility    returns.std() * sqrt(252) * 100

Sma20(d) == IF d.bars >= 20 THEN d.sma_20 ELSE d.close
Sma50(d) == IF d.bars >= 50 THEN d.sma_50 ELSE d.close

\* A float that may be NaN, as the fraction num / den (den > 0)
NaN == [nan |-> TRUE, num |-> 0, den |-> 1]
Frac(num, den) == [nan |-> FALSE, num |-> num, den |-> den]

\* Mutant: a zero loss leaves the RSI undefined
RsiValue_ZeroLossUndefined(gain, loss) ==
    IF loss = 0 THEN NaN ELSE Frac(100 * gain, gain + loss)

\* rs = gain / loss; rsi = 100 - 100 / (1 + rs) = 100 * gain / (gain + loss):
\* gain / 0 is inf and gives 100; 0 / 0 is NaN.
RsiValue(gain, loss) ==
    IF loss = 0
    THEN IF gain = 0 THEN NaN ELSE Frac(100, 1)
    ELSE Frac(100 * gain, gain + loss)

\* The RSI of the analysis: 50 under 14 bars
Rsi(d) ==
    IF d.bars >= 14
    THEN RsiValue(d.avg_gain, d.avg_loss)
    ELSE [nan |-> FALSE, num |-> 50, den |-> 1]

\* rsi < n and rsi > n; every comparison with NaN is False
RsiBelow(r, n) == ~r.nan /\ r.num < n * r.den
RsiAbove(r, n) == ~r.nan /\ r.num > n * r.den

\* volume_trend = recent_volume / avg_volume if avg_volume > 0 else 1, as the
\* fraction num / den (avg_volume is NaN under 20 bars, and NaN > 0 is False)
VolumeTrend(d) ==
    IF d.bars >= 20 /\ d.avg_volume > 0
    THEN [num |-> d.recent_volume, den |-> d.avg_volume]
    ELSE [num |-> 1, den |-> 1]

---------------------------------------------------------------------------
(* _get_advanced_stock_analysis: scoring *)

\* Technical scoring: trend
TrendScore(price, sma_20, sma_50) ==
    IF price > sma_20 /\ price > sma_50 THEN 4
    ELSE IF price > sma_20 THEN 2
    ELSE IF price < sma_20 /\ price < sma_50 THEN -4
    ELSE -2

RsiScore(r) ==
    IF RsiBelow(r, 30) THEN 2
    ELSE IF RsiAbove(r, 70) THEN -2
    ELSE 0

\* volume_trend > 1.2, volume_trend < 0.8
VolumeScore(vt) ==
    IF 10 * vt.num > 12 * vt.den THEN 2
    ELSE IF 10 * vt.num < 8 * vt.den THEN -1
    ELSE 0

\* Mutant: a P/E under 10 scores like a P/E of 10 to 25
PeScore_LowPeOne(pe) ==
    IF Truthy(pe) /\ pe.v <= 25 THEN 2
    ELSE IF Truthy(pe) /\ pe.v > 30 THEN -2
    ELSE 0

\* Fundamental scoring: valuation (pe_ratio None or 0 is falsy)
PeScore(pe) ==
    IF Truthy(pe) /\ 10 <= pe.v /\ pe.v <= 25 THEN 2
    ELSE IF Truthy(pe) /\ pe.v < 10 THEN 4
    ELSE IF Truthy(pe) /\ pe.v > 30 THEN -2
    ELSE 0

\* Size factor (market cap in units of 1e8: 200e9 -> 2000, 2e9 -> 20)
SizeScore(cap) ==
    IF cap.v > 2000 THEN 1
    ELSE IF cap.v < 20 THEN 2
    ELSE 0

\* Mutant: a sentiment of exactly 0.7 or 0.3 takes the outer band
SentimentAdjustment_OuterBandClosed(s) ==
    IF s >= 70 THEN 2
    ELSE IF s > 60 THEN 1
    ELSE IF s <= 30 THEN -2
    ELSE IF s < 40 THEN -1
    ELSE 0

\* Mutant: the adjustment is made only until a call has been remembered
SentimentAdjustment_FirstCallsOnly(s) ==
    IF earlier.call.op # "none" THEN 0
    ELSE IF s > 70 THEN 2
    ELSE IF s > 60 THEN 1
    ELSE IF s < 30 THEN -2
    ELSE IF s < 40 THEN -1
    ELSE 0

\* sentiment_adjustment (sentiment in hundredths)
SentimentAdjustment(s) ==
    IF s > 70 THEN 2
    ELSE IF s > 60 THEN 1
    ELSE IF s < 30 THEN -2
    ELSE IF s < 40 THEN -1
    ELSE 0

\* news_sentiment.get('sentiment_score', 0.5) if news_sentiment else 0.5
\* news_sentiment is None ("none"), a dict without the key, or a dict with it
SentimentScore(news) ==
    IF news.k = "num" THEN news.v ELSE 50

---------------------------------------------------------------------------
(* Recommendation mapper of the equity analysis *)

\* Mutant: BUY only above 3
StockRecommendation_BuyAbove(total) ==
    IF total > 6
    THEN [recommendation |-> "BUY",
          confidence |-> Min(850, 600 + (total - 6) * 25),
          target_multiplier |-> 1100 + (total - 6) * 10]
    ELSE IF total <= -4
    THEN [recommendation |-> "SELL",
          confidence |-> Min(800, 600 + Abs(total + 4) * 25),
          target_multiplier |-> 900 - Abs(total + 4) * 10]
    ELSE [recommendation |-> "HOLD",
          confidence |-> 600 + Abs(total) * 25,
          target_multiplier |-> IF total > 0 THEN 1030 ELSE 970]

\* Mutant: a HOLD at score 0 takes the upper multiplier
StockRecommendation_HoldZeroUp(total) ==
    IF total >= 6
    THEN [recommendation |-> "BUY",
          confidence |-> Min(850, 600 + (total - 6) * 25),
          target_multiplier |-> 1100 + (total - 6) * 10]
    ELSE IF total <= -4
    THEN [recommendation |-> "SELL",
          confidence |-> Min(800, 600 + Abs(total + 4) * 25),
          target_multiplier |-> 900 - Abs(total + 4) * 10]
    ELSE [recommendation |-> "HOLD",
          confidence |-> 600 + Abs(total) * 25,
          target_multiplier |-> IF total >= 0 THEN 1030 ELSE 970]

StockRecommendation(total) ==
    IF total >= 6
    THEN [recommendation |-> "BUY",
          confidence |-> Min(850, 600 + (total - 6) * 25),
          target_multiplier |-> 1100 + (total - 6) * 10]
    ELSE IF total <= -4
    THEN [recommendation |-> "SELL",
          confidence |-> Min(800, 600 + Abs(total + 4) * 25),
          target_multiplier |-> 900 - Abs(total + 4) * 10]
    ELSE [recommendation |-> "HOLD",
          confidence |-> 600 + Abs(total) * 25,
          target_multiplier |-> IF total > 0 THEN 1030 ELSE 970]

---------------------------------------------------------------------------
(* _get_advanced_stock_analysis *)

StockReasoning(price, sma_20, sma_50, r, sentiment, pe) ==
    LET p1 == <<IF price > sma_20 /\ price > sma_50
                THEN "Strong technical uptrend with price above key moving averages"
                ELSE IF price < sma_20 /\ price < sma_50
                THEN "Technical downtrend with price below moving averages"
                ELSE "Mixed technical signals with consolidation pattern">>
        p2 == IF RsiBelow(r, 30)
              THEN Append(p1, "RSI indicates oversold conditions, potential buying opportunity")
              ELSE AppendIf(p1, RsiAbove(r, 70), "RSI shows overbought levels, caution advised")
        p3 == IF sentiment > 60
              THEN Append(p2, "Positive news sentiment supports the outlook")
              ELSE AppendIf(p2, sentiment < 40, "Negative news sentiment creates headwinds")
    IN  IF Truthy(pe) /\ pe.v < 15
        THEN Append(p3, "Attractive valuation with low P/E ratio")
        ELSE AppendIf(p3, Truthy(pe) /\ pe.v > 25,
                      "Premium valuation requires strong growth to justify")

StockRiskFactors(volatility, pe, sentiment, cap) ==
    LET r1 == AppendIf(<<>>, volatility > 30, "High volatility increases investment risk")
        r2 == AppendIf(r1, Truthy(pe) /\ pe.v > 30,
                       "High valuation multiples vulnerable to market corrections")
        r3 == AppendIf(r2, sentiment < 40,
                       "Negative sentiment could impact near-term performance")
        r4 == AppendIf(r3, cap.v < 20, "Small-cap stock subject to higher volatility")
    IN  IF r4 = <<>> THEN <<"Market volatility", "Economic conditions">> ELSE r4

\* Mutant: an empty key_factors list is returned as it is
StockKeyFactors_NoDefault(vt, price, sma_20, sentiment, pe) ==
    LET k1 == AppendIf(<<>>, 10 * vt.num > 12 * vt.den, "Strong volume confirms price action")
        k2 == AppendIf(k1, price > sma_20, "Positive momentum above 20-day average")
        k3 == AppendIf(k2, sentiment > 60, "Favorable news coverage")
    IN  AppendIf(k3, Truthy(pe) /\ pe.v < 20, "Reasonable valuation metrics")

StockKeyFactors(vt, price, sma_20, sentiment, pe) ==
    LET k1 == AppendIf(<<>>, 10 * vt.num > 12 * vt.den, "Strong volume confirms price action")
        k2 == AppendIf(k1, price > sma_20, "Positive momentum above 20-day average")
        k3 == AppendIf(k2, sentiment > 60, "Favorable news coverage")
        k4 == AppendIf(k3, Truthy(pe) /\ pe.v < 20, "Reasonable valuation metrics")
    IN  IF k4 = <<>> THEN <<"Price momentum", "Market conditions">> ELSE k4

\* What a call that raised gives its caller
Raised == [raised |-> TRUE]

\* The local variables technical_score, fundamental_score,
\* sentiment_adjustment, total_score and target_multiplier are kept in the
\* result beside the returned fields, so that properties can speak of them.
get_advanced_stock_analysis(d, news, info) ==
    LET market_cap == Get(info.marketCap, 0)
        pe_ratio == Get(info.trailingPE, 20)
    IN  IF d.bars = 0 THEN Raised              \* .iloc[-1] of an empty series
        ELSE IF market_cap.k = "null" THEN Raised   \* None > 200e9
        ELSE
        LET current_price == d.close
            sma_20 == Sma20(d)
            sma_50 == Sma50(d)
            rsi == Rsi(d)
            volume_trend == VolumeTrend(d)
            sentiment_score == SentimentScore(news)
            technical_score == TrendScore(current_price, sma_20, sma_50)
                               + RsiScore(rsi) + VolumeScore(volume_trend)
            fundamental_score == PeScore(pe_ratio) + SizeScore(market_cap)
            sentiment_adjustment == SentimentAdjustment(sentiment_score)
            total_score == technical_score + fundamental_score + sentiment_adjustment
            m == StockRecommendation(total_score)
        IN  [raised |-> FALSE,
             recommendation |-> m.recommendation,
             target_price |-> TargetPrice(current_price, m.target_multiplier),
             confidence |-> m.confidence,
             reasoning |-> StockReasoning(current_price, sma_20, sma_50, rsi,
                                          sentiment_score, pe_ratio),
             risk_factors |-> StockRiskFactors(d.volatility, pe_ratio,
                                               sentiment_score, market_cap),
             time_horizon |-> "medium term",
             key_factors |-> StockKeyFactors(volume_trend, current_price, sma_20,
                                             sentiment_score, pe_ratio),
             technical_score |-> technical_score,
             fundamental_score |-> fundamental_score,
             sentiment_adjustment |-> sentiment_adjustment,
             total_score |-> total_score,
             target_multiplier |-> m.target_multiplier,
             fallback |-> FALSE]

get_fallback_stock_analysis(d) ==
    IF d.bars = 0 THEN Raised
    ELSE [raised |-> FALSE,
          recommendation |-> "HOLD",
          target_price |-> d.close * 1050,
          confidence |-> 500,
          reasoning |-> <<"Technical analysis suggests the symbol is in a neutral position. Consider holding current positions while monitoring market conditions.">>,
          risk_factors |-> <<"Market volatility", "Economic uncertainty">>,
          time_horizon |-> "medium term",
          key_factors |-> <<"Price action", "Volume trends">>,
          fallback |-> TRUE]

\* Mutant: the exception of the rule-based analysis is not caught
analyze_stock_NoCatch(d, news, info) ==
    get_advanced_stock_analysis(d, news, info)

\* try: return the advanced analysis; except Exception: return the fallback
analyze_stock(d, news, info) ==
    LET r == get_advanced_stock_analysis(d, news, info)
    IN  IF r.raised THEN get_fallback_stock_analysis(d) ELSE r

---------------------------------------------------------------------------
(* _get_advanced_fund_analysis *)

\* fund_data is a NAV series, given by what pandas computes from it:
\*   bars          len(fund_data)
\*   close         fund_data['Close'].iloc[-1]
\*   close_21      fund_data['Close'].iloc[-21] (read only when bars >= 21)
\*   annual_return returns.mean() * 252 * 100, in ninths of a percent
\*   volatility    returns.std() * sqrt(252) * 100, in ninths of a percent
\* (ninths, so that the Sharpe ratio 1.8 of a 15% return is exact).
Pct(n) == 9 * n

\* sharpe_ratio = (annual_return - risk_free_rate) / volatility
\*                if volatility > 0 else 0, as the fraction num / den
SharpeRatio(annual_return, volatility) ==
    IF volatility > 0
    THEN [num |-> annual_return - Pct(2), den |-> volatility]
    ELSE [num |-> 0, den |-> 1]

\* sharpe_ratio > a / b and sharpe_ratio < a / b
SharpeAbove(sr, a, b) == sr.num * b > a * sr.den
SharpeBelow(sr, a, b) == sr.num * b < a * sr.den

\* period_returns['21d'] = (close[-1] / close[-21] - 1) * 100, present when
\* the series has 21 bars; compared with a percentage p
Has21d(d) == d.bars >= 21
Return21dAbove(d, p) == Has21d(d) /\ 100 * d.close > (100 + p) * d.close_21
Return21dBelow(d, p) == Has21d(d) /\ 100 * d.close < (100 + p) * d.close_21

\* Mutant: the branch for a negative return is tested before the one for a
\* return under 2 percent
AnnualReturnScore_NegativeFirst(annual_return) ==
    IF annual_return > Pct(12) THEN 4
    ELSE IF annual_return > Pct(8) THEN 2
    ELSE IF annual_return < 0 THEN -4
    ELSE IF annual_return < Pct(2) THEN -2
    ELSE 0

AnnualReturnScore(annual_return) ==
    IF annual_return > Pct(12) THEN 4
    ELSE IF annual_return > Pct(8) THEN 2
    ELSE IF annual_return < Pct(2) THEN -2
    ELSE IF annual_return < 0 THEN -4
    ELSE 0

SharpeScore(sr) ==
    IF SharpeAbove(sr, 3, 2) THEN 4
    ELSE IF SharpeAbove(sr, 1, 1) THEN 2
    ELSE IF SharpeBelow(sr, 1, 2) THEN -2
    ELSE IF SharpeBelow(sr, 0, 1) THEN -4
    ELSE 0

\* Mutant: low volatility earns nothing
FundVolatilityScore_NoBonus(volatility) ==
    IF volatility > Pct(25) THEN -2 ELSE 0

FundVolatilityScore(volatility) ==
    IF volatility < Pct(10) THEN 2
    ELSE IF volatility > Pct(25) THEN -2
    ELSE 0

\* expense_ratio in hundredths of a percent
CostScore(expense_ratio) ==
    IF expense_ratio < 50 THEN 4
    ELSE IF expense_ratio < 100 THEN 2
    ELSE IF expense_ratio > 200 THEN -4
    ELSE IF expense_ratio > 150 THEN -2
    ELSE 0

\* total_assets in units of 1e6
FundSizeScore(total_assets) ==
    IF total_assets > 10000 THEN 2
    ELSE IF total_assets > 1000 THEN 1
    ELSE IF total_assets < 100 THEN -2
    ELSE 0

MomentumScore(d) ==
    IF Return21dAbove(d, 2) THEN 2
    ELSE IF Return21dBelow(d, -5) THEN -2
    ELSE 0

\* Mutant: the fund table with the equity BUY threshold of 3
FundRecommendation_EquityThreshold(total) ==
    IF total >= 6
    THEN [recommendation |-> "BUY",
          confidence |-> Min(850, 650 + (total - 8) * 15),
          target_multiplier |-> 1080 + (total - 8) * 5]
    ELSE IF total <= -4
    THEN [recommendation |-> "SELL",
          confidence |-> Min(800, 600 + Abs(total + 4) * 15),
          target_multiplier |-> 920 - Abs(total + 4) * 5]
    ELSE [recommendation |-> "HOLD",
          confidence |-> 650 + Abs(total) * 10,
          target_multiplier |-> IF total > 0 THEN 1040 ELSE 980]

\* Mutant: the uncapped HOLD confidence grows by 0.2 a point, not 0.02
FundRecommendation_HoldSlope(total) ==
    IF total >= 8
    THEN [recommendation |-> "BUY",
          confidence |-> Min(850, 650 + (total - 8) * 15),
          target_multiplier |-> 1080 + (total - 8) * 5]
    ELSE IF total <= -4
    THEN [recommendation |-> "SELL",
          confidence |-> Min(800, 600 + Abs(total + 4) * 15),
          target_multiplier |-> 920 - Abs(total + 4) * 5]
    ELSE [recommendation |-> "HOLD",
          confidence |-> 650 + Abs(total) * 100,
          target_multiplier |-> IF total > 0 THEN 1040 ELSE 980]

FundRecommendation(total) ==
    IF total >= 8
    THEN [recommendation |-> "BUY",
          confidence |-> Min(850, 650 + (total - 8) * 15),
          target_multiplier |-> 1080 + (total - 8) * 5]
    ELSE IF total <= -4
    THEN [recommendation |-> "SELL",
          confidence |-> Min(800, 600 + Abs(total + 4) * 15),
          target_multiplier |-> 920 - Abs(total + 4) * 5]
    ELSE [recommendation |-> "HOLD",
          confidence |-> 650 + Abs(total) * 10,
          target_multiplier |-> IF total > 0 THEN 1040 ELSE 980]

FundReasoning(annual_return, sr, expense_ratio) ==
    <<IF annual_return > Pct(10)
      THEN "Strong annual return of {annual_return:.1f}% outperforms market averages"
      ELSE IF annual_return < Pct(5)
      THEN "Modest annual return of {annual_return:.1f}% below market expectations"
      ELSE "Reasonable annual return of {annual_return:.1f}% in line with expectations",
      IF SharpeAbove(sr, 1, 1)
      THEN "Excellent risk-adjusted returns with Sharpe ratio of {sharpe_ratio:.2f}"
      ELSE IF SharpeAbove(sr, 1, 2)
      THEN "Decent risk-adjusted performance with Sharpe ratio of {sharpe_ratio:.2f}"
      ELSE "Poor risk-adjusted returns with Sharpe ratio of {sharpe_ratio:.2f}",
      IF expense_ratio < 50
      THEN "Very low expense ratio of {expense_ratio:.2f}% enhances net returns"
      ELSE IF expense_ratio < 100
      THEN "Reasonable expense ratio of {expense_ratio:.2f}%"
      ELSE "High expense ratio of {expense_ratio:.2f}% reduces net returns">>

FundStrengths(sr, expense_ratio, total_assets, volatility, annual_return) ==
    LET s1 == AppendIf(<<>>, SharpeAbove(sr, 1, 1), "Strong risk-adjusted returns")
        s2 == AppendIf(s1, expense_ratio < 75, "Low cost structure")
        s3 == AppendIf(s2, total_assets > 1000, "Large asset base provides stability")
        s4 == AppendIf(s3, volatility < Pct(15), "Low volatility provides stability")
        s5 == AppendIf(s4, annual_return > Pct(8), "Consistent performance track record")
    IN  IF s5 = <<>> THEN <<"Professional management", "Diversification">> ELSE s5

FundWeaknesses(expense_ratio, volatility, annual_return, sr, total_assets) ==
    LET w1 == AppendIf(<<>>, expense_ratio > 150, "High expense ratio reduces returns")
        w2 == AppendIf(w1, volatility > Pct(20), "High volatility increases risk")
        w3 == AppendIf(w2, annual_return < Pct(5), "Below-average performance")
        w4 == AppendIf(w3, SharpeBelow(sr, 1, 2), "Poor risk-adjusted returns")
        w5 == AppendIf(w4, total_assets < 100, "Small asset base may limit liquidity")
    IN  IF w5 = <<>> THEN <<"Market dependency", "Interest rate sensitivity">> ELSE w5

FundRiskFactors(volatility, expense_ratio, d) ==
    LET r1 == AppendIf(<<>>, volatility > Pct(20),
                       "High volatility may result in significant losses")
        r2 == AppendIf(r1, expense_ratio > 150, "High fees erode long-term returns")
        r3 == AppendIf(r2, Return21dBelow(d, -10),
                       "Recent poor performance indicates potential issues")
    IN  r3 \o <<"Market risk", "Interest rate risk", "Manager risk">>

\* list[-n:] in place of list[:n]
Take_FromEnd(list, n) ==
    SubSeq(list, Max(1, Len(list) - n + 1), Len(list))

\* list[:n]
Take(list, n) == SubSeq(list, 1, Min(n, Len(list)))

get_advanced_fund_analysis(d, info) ==
    LET ratio == Get(info.annualReportExpenseRatio, 100)
        assets == Get(info.totalAssets, 0)
    IN  IF d.bars = 0 THEN Raised              \* .iloc[-1] of an empty series
        ELSE IF ratio.k = "null" THEN Raised   \* None * 100
        ELSE IF assets.k = "null" THEN Raised  \* None > 10e9
        ELSE
        LET current_nav == d.close
            annual_return == d.annual_return
            volatility == d.volatility
            sharpe_ratio == SharpeRatio(annual_return, volatility)
            expense_ratio == ratio.v
            total_assets == assets.v
            performance_score == AnnualReturnScore(annual_return)
                                 + SharpeScore(sharpe_ratio)
                                 + FundVolatilityScore(volatility)
            cost_score == CostScore(expense_ratio)
            size_score == FundSizeScore(total_assets)
            momentum_score == MomentumScore(d)
            total_score == performance_score + cost_score + size_score
                           + momentum_score
            m == FundRecommendation(total_score)
        IN  [raised |-> FALSE,
             recommendation |-> m.recommendation,
             target_price |-> TargetPrice(current_nav, m.target_multiplier),
             confidence |-> m.confidence,
             reasoning |-> FundReasoning(annual_return, sharpe_ratio, expense_ratio),
             risk_factors |-> Take(FundRiskFactors(volatility, expense_ratio, d), 4),
             time_horizon |-> "long term",
             fund_strengths |-> Take(FundStrengths(sharpe_ratio, expense_ratio,
                                       total_assets, volatility, annual_return), 4),
             fund_weaknesses |-> Take(FundWeaknesses(expense_ratio, volatility,
                                       annual_return, sharpe_ratio, total_assets), 3),
             performance_score |-> performance_score,
             cost_score |-> cost_score,
             size_score |-> size_score,
             momentum_score |-> momentum_score,
             total_score |-> total_score,
             target_multiplier |-> m.target_multiplier,
             fallback |-> FALSE]

get_fallback_fund_analysis(d) ==
    IF d.bars = 0 THEN Raised
    ELSE [raised |-> FALSE,
          recommendation |-> "HOLD",
          target_price |-> d.close * 1030,
          confidence |-> 500,
          reasoning |-> <<"Fund shows stable performance. Suitable for long-term diversified portfolio.">>,
          risk_factors |-> <<"Market risk", "Interest rate risk">>,
          time_horizon |-> "long term",
          fund_strengths |-> <<"Diversification", "Professional management">>,
          fund_weaknesses |-> <<"Management fees", "Market dependency">>,
          fallback |-> TRUE]

\* try: return the advanced analysis; except Exception: return the fallback
analyze_mutual_fund(d, info) ==
    LET r == get_advanced_fund_analysis(d, info)
    IN  IF r.raised THEN get_fallback_fund_analysis(d) ELSE r

---------------------------------------------------------------------------
(* _get_fallback_stock_recommendations, _get_fallback_mf_recommendations *)

\* One canned item; price in hundredths, target as price * 1000
Canned(symbol, name, current_price, target_price, confidence, reasoning, price_change, sector) ==
    [symbol |-> symbol, name |-> name, current_price |-> current_price,
     target_price |-> target_price * 1000, confidence |-> confidence,
     reasoning |-> reasoning, price_change |-> price_change, sector |-> sector]

FallbackStocks ==
    <<Canned("RELIANCE.NS", "Reliance Industries Limited", 285000, 300000, 750,
             "Strong refining and telecom business growth.", 53, "Energy"),
      Canned("TCS.NS", "Tata Consultancy Services Limited", 365000, 385000, 800,
             "IT services leadership and digital transformation.", 55, "Technology"),
      Canned("HDFCBANK.NS", "HDFC Bank Limited", 172000, 185000, 700,
             "Strong banking fundamentals and digital initiatives.", 76,
             "Financial Services"),
      Canned("INFY.NS", "Infosys Limited", 189000, 200000, 650,
             "Strong IT consulting and automation services.", 58, "Technology"),
      Canned("ITC.NS", "ITC Limited", 46500, 50000, 720,
             "Diversified FMCG portfolio and dividend yield.", 75, "Consumer Goods")>>

FallbackFunds ==
    <<Canned("SBI-BLUECHIP", "SBI Bluechip Fund", 8550, 8900, 750,
             "Strong large-cap portfolio with consistent performance.", 41, "Large Cap"),
      Canned("HDFC-TOP100", "HDFC Top 100 Fund", 92000, 95000, 700,
             "Diversified blue-chip equity exposure.", 33, "Large Cap"),
      Canned("ICICI-BLUECHIP", "ICICI Prudential Bluechip Fund", 6540, 6800, 650,
             "Well-managed large-cap fund with stable returns.", 40, "Large Cap"),
      Canned("AXIS-BLUECHIP", "Axis Bluechip Fund", 5280, 5500, 680,
             "Quality large-cap stocks with growth potential.", 42, "Large Cap"),
      Canned("MIRAE-LARGECAP", "Mirae Asset Large Cap Fund", 9820, 10200, 720,
             "Systematic large-cap investment approach.", 39, "Large Cap")>>

\* Mutant: one list is kept and handed out again, as the caller left it
get_fallback_stock_recommendations_Kept(recommendation_type) ==
    IF earlier.call.op = "fallback_stocks" THEN earlier.ret
    ELSE IF recommendation_type = "SELL"
    THEN [i \in 1..Len(FallbackStocks) |->
            [FallbackStocks[i] EXCEPT
                !.target_price = FallbackStocks[i].current_price * 950,
                !.price_change = -20,
                !.reasoning = "Technical indicators suggest potential downside."]]
    ELSE FallbackStocks

\* The list is built anew by every call; for "SELL" each item's target_price,
\* price_change and reasoning are overwritten.
get_fallback_stock_recommendations(recommendation_type) ==
    IF recommendation_type = "SELL"
    THEN [i \in 1..Len(FallbackStocks) |->
            [FallbackStocks[i] EXCEPT
                !.target_price = FallbackStocks[i].current_price * 950,
                !.price_change = -20,
                !.reasoning = "Technical indicators suggest potential downside."]]
    ELSE FallbackStocks

get_fallback_mf_recommendations(recommendation_type) ==
    IF recommendation_type = "SELL"
    THEN [i \in 1..Len(FallbackFunds) |->
            [FallbackFunds[i] EXCEPT
                !.target_price = FallbackFunds[i].current_price * 970,
                !.price_change = -15,
                !.reasoning = "Consider rebalancing portfolio allocation."]]
    ELSE FallbackFunds

---------------------------------------------------------------------------
(* _get_smart_stock_recommendations: the body of the loop *)

popular_stocks ==
    <<[symbol |-> "RELIANCE.NS", name |-> "Reliance Industries Limited", sector |-> "Energy"],
      [symbol |-> "TCS.NS", name |-> "Tata Consultancy Services Limited", sector |-> "Technology"],
      [symbol |-> "INFY.NS", name |-> "Infosys Limited", sector |-> "Technology"],
      [symbol |-> "HDFCBANK.NS", name |-> "HDFC Bank Limited", sector |-> "Financial Services"],
      [symbol |-> "ICICIBANK.NS", name |-> "ICICI Bank Limited", sector |-> "Financial Services"],
      [symbol |-> "HINDUNILVR.NS", name |-> "Hindustan Unilever Limited", sector |-> "Consumer Goods"],
      [symbol |-> "ITC.NS", name |-> "ITC Limited", sector |-> "Consumer Goods"],
      [symbol |-> "SBIN.NS", name |-> "State Bank of India", sector |-> "Financial Services"],
      [symbol |-> "BHARTIARTL.NS", name |-> "Bharti Airtel Limited", sector |-> "Telecommunications"],
      [symbol |-> "KOTAKBANK.NS", name |-> "Kotak Mahindra Bank Limited", sector |-> "Financial Services"],
      [symbol |-> "LT.NS", name |-> "Larsen & Toubro Limited", sector |-> "Engineering"],
      [symbol |-> "ASIANPAINT.NS", name |-> "Asian Paints Limited", sector |-> "Chemicals"],
      [symbol |-> "MARUTI.NS", name |-> "Maruti Suzuki India Limited", sector |-> "Automobile"],
      [symbol |-> "BAJFINANCE.NS", name |-> "Bajaj Finance Limited", sector |-> "Financial Services"],
      [symbol |-> "WIPRO.NS", name |-> "Wipro Limited", sector |-> "Technology"],
      [symbol |-> "HCLTECH.NS", name |-> "HCL Technologies Limited", sector |-> "Technology"],
      [symbol |-> "SUNPHARMA.NS", name |-> "Sun Pharmaceutical Industries Limited", sector |-> "Pharmaceuticals"],
      [symbol |-> "TITAN.NS", name |-> "Titan Company Limited", sector |-> "Consumer Goods"],
      [symbol |-> "TECHM.NS", name |-> "Tech Mahindra Limited", sector |-> "Technology"],
      [symbol |-> "ULTRACEMCO.NS", name |-> "UltraTech Cement Limited", sector |-> "Cement"]>>

\* What data_fetcher.get_stock_data(symbol, "3mo") gives the loop:
\*   k = "none"       it returned None (no data, or an exception it caught)
\*   k = "raise"      an exception left it
\*   k = "malformed"  a frame the body cannot evaluate (an exception in scoring)
\*   k = "data"       the series d: bars, close, sma_20 (rolling(20).mean()),
\*                    close_21 (Close.iloc[-21]), volatility (percent),
\*                    avg_volume and recent_volume
\* momentum = (current_price / sma_20 - 1) * 100 compared with a percentage p
MomentumAbove(d, p) == 100 * d.close > (100 + p) * d.sma_20
MomentumBelow(d, p) == 100 * d.close < (100 + p) * d.sma_20

\* month_return = (current_price / Close.iloc[-21] - 1) * 100
\*                if len(stock_data) >= 21 else 0
MonthReturnAbove(d, p) ==
    IF d.bars >= 21 THEN 100 * d.close > (100 + p) * d.close_21 ELSE 0 > p
MonthReturnBelow(d, p) ==
    IF d.bars >= 21 THEN 100 * d.close < (100 + p) * d.close_21 ELSE 0 < p

\* volume_ratio = recent_volume / avg_volume if avg_volume > 0 else 1
VolumeRatio(d) ==
    IF d.avg_volume > 0
    THEN [num |-> d.recent_volume, den |-> d.avg_volume]
    ELSE [num |-> 1, den |-> 1]

StockBuyScore(d, sector) ==
    (IF MomentumAbove(d, 2) THEN 4
     ELSE IF MomentumAbove(d, 0) THEN 2
     ELSE IF MomentumBelow(d, -5) THEN -4
     ELSE IF MomentumBelow(d, -2) THEN -2
     ELSE 0)
    + (IF MonthReturnAbove(d, 5) THEN 2
       ELSE IF MonthReturnBelow(d, -10) THEN -4
       ELSE 0)
    + (IF d.volatility < 25 THEN 2
       ELSE IF d.volatility > 40 THEN -2
       ELSE 0)
    + (IF 10 * VolumeRatio(d).num > 12 * VolumeRatio(d).den THEN 2 ELSE 0)
    + (IF sector \in {"Technology", "Healthcare"} THEN 1 ELSE 0)

\* Mutant: a high volume ratio raises the SELL score as it raises the BUY score
StockSellScore_WithVolume(d) ==
    (IF MomentumBelow(d, -5) THEN 4
     ELSE IF MomentumBelow(d, -2) THEN 2
     ELSE IF MomentumAbove(d, 5) THEN -2
     ELSE 0)
    + (IF MonthReturnBelow(d, -10) THEN 4
       ELSE IF MonthReturnAbove(d, 10) THEN -2
       ELSE 0)
    + (IF d.volatility > 40 THEN 2 ELSE 0)
    + (IF 10 * VolumeRatio(d).num > 12 * VolumeRatio(d).den THEN 2 ELSE 0)

StockSellScore(d) ==
    (IF MomentumBelow(d, -5) THEN 4
     ELSE IF MomentumBelow(d, -2) THEN 2
     ELSE IF MomentumAbove(d, 5) THEN -2
     ELSE 0)
    + (IF MonthReturnBelow(d, -10) THEN 4
       ELSE IF MonthReturnAbove(d, 10) THEN -2
       ELSE 0)
    + (IF d.volatility > 40 THEN 2 ELSE 0)

StockScore(recommendation_type, d, sector) ==
    IF recommendation_type = "BUY" THEN StockBuyScore(d, sector)
    ELSE StockSellScore(d)

\* Mutant: the score is used as it is, not max(0, score)
StockTarget_SignedScore(recommendation_type, score) ==
    IF recommendation_type = "BUY"
    THEN [target_multiplier |-> 1050 + score * 10,
          confidence |-> Min(850, 550 + Max(0, score) * 25),
          reasoning_base |-> "Strong technical momentum and fundamentals"]
    ELSE [target_multiplier |-> 950 - score * 10,
          confidence |-> Min(800, 550 + Max(0, score) * 25),
          reasoning_base |-> "Technical indicators suggest downside risk"]

\* target_multiplier and confidence of a ranked stock
StockTarget(recommendation_type, score) ==
    IF recommendation_type = "BUY"
    THEN [target_multiplier |-> 1050 + Max(0, score) * 10,
          confidence |-> Min(850, 550 + Max(0, score) * 25),
          reasoning_base |-> "Strong technical momentum and fundamentals"]
    ELSE [target_multiplier |-> 950 - Max(0, score) * 10,
          confidence |-> Min(800, 550 + Max(0, score) * 25),
          reasoning_base |-> "Technical indicators suggest downside risk"]

\* Mutant: the series length is not checked
StockLoopBody_NoLengthCheck(recommendation_type, entry, f) ==
    IF f.k = "raise" THEN <<>>
    ELSE IF f.k = "none" THEN <<>>
    ELSE IF f.k = "malformed" THEN <<>>
    ELSE
    LET score == StockScore(recommendation_type, f.d, entry.sector)
        t == StockTarget(recommendation_type, score)
    IN  <<[symbol |-> entry.symbol,
           name |-> entry.name,
           current_price |-> f.d.close,
           target_price |-> f.d.close * t.target_multiplier,
           confidence |-> t.confidence,
           reasoning |-> t.reasoning_base,
           price_change |-> t.target_multiplier - 1000,
           sector |-> entry.sector,
           score |-> score]>>

\* One pass of the loop body: the items it appends to recommendations
\* (none when the candidate is skipped by continue or by the except clause)
StockLoopBody(recommendation_type, entry, f) ==
    IF f.k = "raise" THEN <<>>
    ELSE IF f.k = "none" \/ f.d.bars < 30 THEN <<>>
    ELSE IF f.k = "malformed" THEN <<>>
    ELSE
    LET score == StockScore(recommendation_type, f.d, entry.sector)
        t == StockTarget(recommendation_type, score)
    IN  <<[symbol |-> entry.symbol,
           name |-> entry.name,
           current_price |-> f.d.close,
           target_price |-> f.d.close * t.target_multiplier,
           confidence |-> t.confidence,
           reasoning |-> t.reasoning_base,
           price_change |-> t.target_multiplier - 1000,
           sector |-> entry.sector,
           score |-> score]>>

---------------------------------------------------------------------------
(* _get_smart_mf_recommendations: the body of the loop *)

popular_funds ==
    <<[symbol |-> "SBI-BLUECHIP", name |-> "SBI Bluechip Fund", sector |-> "Large Cap"],
      [symbol |-> "HDFC-TOP100", name |-> "HDFC Top 100 Fund", sector |-> "Large Cap"],
      [symbol |-> "ICICI-BLUECHIP", name |-> "ICICI Prudential Bluechip Fund", sector |-> "Large Cap"],
      [symbol |-> "AXIS-BLUECHIP", name |-> "Axis Bluechip Fund", sector |-> "Large Cap"],
      [symbol |-> "MIRAE-LARGECAP", name |-> "Mirae Asset Large Cap Fund", sector |-> "Large Cap"],
      [symbol |-> "SBI-SMALLCAP", name |-> "SBI Small Cap Fund", sector |-> "Small Cap"],
      [symbol |-> "HDFC-MIDCAP", name |-> "HDFC Mid-Cap Opportunities Fund", sector |-> "Mid Cap"],
      [symbol |-> "ICICI-MIDCAP", name |-> "ICICI Prudential Mid Cap Fund", sector |-> "Mid Cap"],
      [symbol |-> "KOTAK-MULTICAP", name |-> "Kotak Standard Multicap Fund", sector |-> "Multi Cap"],
      [symbol |-> "FRANKLIN-FLEXICAP", name |-> "Franklin India Flexi Cap Fund", sector |-> "Flexi Cap"],
      [symbol |-> "DSP-TAXSAVER", name |-> "DSP Tax Saver Fund", sector |-> "ELSS"],
      [symbol |-> "AXIS-ELSS", name |-> "Axis Long Term Equity Fund", sector |-> "ELSS"]>>

\* What data_fetcher.get_mutual_fund_data(symbol, "6mo") gives the loop: as for
\* stocks, with the series d: bars, close, close_63 (Close.iloc[-63]),
\* annual_return and volatility (ninths of a percent).
\* quarter_return = (current_nav / Close.iloc[-63] - 1) * 100
\*                  if len(fund_data) >= 63 else 0
QuarterReturnAbove(d, p) ==
    IF d.bars >= 63 THEN 100 * d.close > (100 + p) * d.close_63 ELSE 0 > p
QuarterReturnBelow(d, p) ==
    IF d.bars >= 63 THEN 100 * d.close < (100 + p) * d.close_63 ELSE 0 < p

FundBuyScore(d, expense_ratio, category) ==
    LET sr == SharpeRatio(d.annual_return, d.volatility)
    IN  (IF d.annual_return > Pct(10) THEN 4
         ELSE IF d.annual_return > Pct(6) THEN 2
         ELSE IF d.annual_return < Pct(2) THEN -2
         ELSE IF d.annual_return < 0 THEN -4
         ELSE 0)
        + (IF SharpeAbove(sr, 1, 1) THEN 4
           ELSE IF SharpeAbove(sr, 1, 2) THEN 2
           ELSE IF SharpeBelow(sr, 0, 1) THEN -2
           ELSE 0)
        + (IF expense_ratio < 50 THEN 4
           ELSE IF expense_ratio < 100 THEN 2
           ELSE IF expense_ratio > 200 THEN -4
           ELSE 0)
        + (IF QuarterReturnAbove(d, 3) THEN 2
           ELSE IF QuarterReturnBelow(d, -5) THEN -2
           ELSE 0)
        + (IF category \in {"Large Blend", "Intermediate-Term Bond"} THEN 1 ELSE 0)

FundSellScore(d, expense_ratio) ==
    LET sr == SharpeRatio(d.annual_return, d.volatility)
    IN  (IF d.annual_return < 0 THEN 4
         ELSE IF d.annual_return < Pct(3) THEN 2
         ELSE IF d.annual_return > Pct(12) THEN -2
         ELSE 0)
        + (IF SharpeBelow(sr, 0, 1) THEN 4
           ELSE IF SharpeBelow(sr, 1, 2) THEN 2
           ELSE 0)
        + (IF expense_ratio > 200 THEN 2 ELSE 0)
        + (IF QuarterReturnBelow(d, -8) THEN 4 ELSE 0)

FundScore(recommendation_type, d, expense_ratio, category) ==
    IF recommendation_type = "BUY" THEN FundBuyScore(d, expense_ratio, category)
    ELSE FundSellScore(d, expense_ratio)

\* target_multiplier and confidence of a ranked fund
FundTarget(recommendation_type, score) ==
    IF recommendation_type = "BUY"
    THEN [target_multiplier |-> 1030 + Max(0, score) * 5,
          confidence |-> Min(850, 600 + Max(0, score) * 20),
          reasoning_base |-> "Strong risk-adjusted returns with reasonable fees"]
    ELSE [target_multiplier |-> 970 - Max(0, score) * 5,
          confidence |-> Min(800, 600 + Max(0, score) * 20),
          reasoning_base |-> "Underperforming with concerning risk metrics"]

\* One pass of the loop body; info is what get_fund_info returned ({} when
\* it caught an exception): only annualReportExpenseRatio is read.
FundLoopBody(recommendation_type, entry, f, info) ==
    LET ratio == Get(info.annualReportExpenseRatio, 100)
    IN  IF f.k = "raise" THEN <<>>
        ELSE IF f.k = "none" \/ f.d.bars < 50 THEN <<>>
        ELSE IF f.k = "malformed" THEN <<>>
        ELSE IF ratio.k = "null" THEN <<>>        \* None * 100 raises
        ELSE
        LET score == FundScore(recommendation_type, f.d, ratio.v, entry.sector)
            t == FundTarget(recommendation_type, score)
        IN  <<[symbol |-> entry.symbol,
               name |-> entry.name,
               current_price |-> f.d.close,
               target_price |-> f.d.close * t.target_multiplier,
               confidence |-> t.confidence,
               reasoning |-> t.reasoning_base,
               price_change |-> t.target_multiplier - 1000,
               sector |-> entry.sector,
               score |-> score]>>

---------------------------------------------------------------------------
(* recommendations.sort(key=lambda x: x['score'], reverse=True); [:5] *)

\* Mutant: an item goes in before the items of equal score
RECURSIVE InsertByScore_BeforeEqual(_, _)
InsertByScore_BeforeEqual(sorted, item) ==
    IF sorted = <<>> THEN <<item>>
    ELSE IF Head(sorted).score > item.score
         THEN <<Head(sorted)>> \o InsertByScore_BeforeEqual(Tail(sorted), item)
         ELSE <<item>> \o sorted

\* list.sort is stable, and with reverse=True items of equal score keep
\* their order: an item goes in after the last item whose score is not lower.
RECURSIVE InsertByScore(_, _)
InsertByScore(sorted, item) ==
    IF sorted = <<>> THEN <<item>>
    ELSE IF Head(sorted).score >= item.score
         THEN <<Head(sorted)>> \o InsertByScore(Tail(sorted), item)
         ELSE <<item>> \o sorted

\* Mutant: the list is returned in the order of evaluation
SortByScore_Unsorted(list) == list

RECURSIVE SortByScore(_)
SortByScore(list) ==
    IF list = <<>> THEN <<>>
    ELSE InsertByScore(SortByScore(SubSeq(list, 1, Len(list) - 1)), list[Len(list)])

\* Mutant: no fallback list when nothing was computed
TopStocks_NoFallback(list, recommendation_type) ==
    Take(SortByScore(list), 5)

\* return recommendations[:5] if recommendations else the fallback list
TopStocks(list, recommendation_type) ==
    IF list # <<>> THEN Take(SortByScore(list), 5)
    ELSE get_fallback_stock_recommendations(recommendation_type)

\* Mutant: fewer than 5 computed items are filled up with canned ones
TopFunds_Padded(list, recommendation_type) ==
    Take(SortByScore(list) \o get_fallback_mf_recommendations(recommendation_type), 5)

\* Mutant: the sorted list is returned whole
TopFunds_NoTruncate(list, recommendation_type) ==
    IF list # <<>> THEN SortByScore(list)
    ELSE get_fallback_mf_recommendations(recommendation_type)

TopFunds(list, recommendation_type) ==
    IF list # <<>> THEN Take(SortByScore(list), 5)
    ELSE get_fallback_mf_recommendations(recommendation_type)

---------------------------------------------------------------------------
(* The inputs the model draws *)

Series(bars, close, s20, s50, g, l, av, rv, vol) ==
    [bars |-> bars, close |-> close, sma_20 |-> s20, sma_50 |-> s50,
     avg_gain |-> g, avg_loss |-> l, avg_volume |-> av, recent_volume |-> rv,
     volatility |-> vol]

\* <<avg_gain, avg_loss>>: RSI 25, 30, 70, 100 (no loss) and 0/0 (flat series)
GainLoss == {<<1, 3>>, <<3, 7>>, <<7, 3>>, <<1, 0>>, <<0, 0>>}

\* <<recent_volume, avg_volume>>: ratios 0.7, 0.8, 1.2, 1.3, and no volume
Volumes == {<<70, 100>>, <<80, 100>>, <<120, 100>>, <<130, 100>>, <<0, 0>>}

Volatilities == {30, 35}

StockSeries ==
    {Series(0, 0, 0, 0, 0, 0, 0, 0, 0)}
    \cup {Series(10, 11000, 0, 0, 0, 0, 0, 100, vol) : vol \in Volatilities}
    \cup {Series(15, 11000, 0, 0, gl[1], gl[2], 0, 100, vol) :
            gl \in GainLoss, vol \in Volatilities}
    \cup {Series(30, 11000, s20, 0, gl[1], gl[2], v[2], v[1], vol) :
            s20 \in {10000, 11000, 12000}, gl \in GainLoss, v \in Volumes,
            vol \in Volatilities}
    \cup {Series(60, 11000, s20, s50, gl[1], gl[2], v[2], v[1], vol) :
            s20 \in {10000, 11000, 12000}, s50 \in {9500, 11000, 12500},
            gl \in GainLoss, v \in Volumes, vol \in Volatilities}

\* news_sentiment: None, a dict without sentiment_score, or a score
NewsSentiments ==
    {[k |-> "none", v |-> 0], Absent}
    \cup {Num(s) : s \in {20, 30, 35, 40, 60, 65, 70, 75}}

CompanyInfos ==
    [marketCap : {Absent, Null} \cup {Num(c) : c \in {10, 20, 2000, 3000}},
     trailingPE : {Absent, Null} \cup {Num(p) : p \in {8, 10, 25, 30, 35}}]

NavSeries(bars, close, c21, ar, vol) ==
    [bars |-> bars, close |-> close, close_21 |-> c21, annual_return |-> ar,
     volatility |-> vol]

\* annual returns of -1, 0, 2, 5, 8, 10, 12 and 15 percent
AnnualReturns == {Pct(-1), 0, Pct(2), Pct(5), Pct(8), Pct(10), Pct(12), Pct(15)}

\* volatilities of 0, 65/9 (Sharpe 1.8 at a 15% return), 10, 15, 20, 25 and
\* 30 percent
FundVolatilities == {0, 65, Pct(10), Pct(15), Pct(20), Pct(25), Pct(30)}

\* NAVs against a close[-21] of 100.00: 21-day returns of -11, -10, -6, -5,
\* 0, 2 and 3 percent
Navs == {8900, 9000, 9400, 9500, 10000, 10200, 10300}

FundSeries ==
    {NavSeries(0, 0, 0, 0, 0)}
    \cup {NavSeries(10, 10000, 0, ar, vol) :
            ar \in AnnualReturns, vol \in FundVolatilities}
    \cup {NavSeries(30, nav, 10000, ar, vol) :
            nav \in Navs, ar \in AnnualReturns, vol \in FundVolatilities}

FundInfos ==
    [annualReportExpenseRatio :
        {Absent, Null} \cup {Num(e) : e \in {30, 50, 75, 150, 200, 250}},
     totalAssets :
        {Absent, Null} \cup {Num(a) : a \in {50, 100, 1000, 10000, 15000}}]

\* --- candidates of the rankers ---

\* The number of candidates of each universe the ranking loop is run over
MaxUniverse == 6

StockUniverse == Take(popular_stocks, MaxUniverse)
FundUniverse == Take(popular_funds, MaxUniverse)

RecommendationTypes == {"BUY", "SELL"}

Candles(bars, close, s20, c21, vol, av, rv) ==
    [bars |-> bars, close |-> close, sma_20 |-> s20, close_21 |-> c21,
     volatility |-> vol, avg_volume |-> av, recent_volume |-> rv]

Fetched(k, d) == [k |-> k, d |-> d]

\* Series of 30 bars around a 20-day average of 100.00: momentum of -6, -5,
\* -3, -2, 0, 1, 2, 3, 5 and 6 percent; a month return of (or just above)
\* -12, 0, 7 and 12 percent; volatility 20, 25, 40, 45; volume ratio 1, 1.2,
\* 1.3 and no volume
StockCandles ==
    {Candles(30, close, 10000, (100 * close) \div (100 + m), vol, v[2], v[1]) :
        close \in {9400, 9500, 9700, 9800, 10000, 10100, 10200, 10300, 10500, 10600},
        m \in {-12, 0, 7, 12}, vol \in {20, 25, 40, 45},
        v \in {<<100, 100>>, <<120, 100>>, <<130, 100>>, <<0, 0>>}}

\* The three series the ranking loop draws from: a rally, a flat month, a slide
RankStockCandles ==
    {Candles(30, 10600, 10000, (100 * 10600) \div 112, 20, 100, 130),
     Candles(30, 10000, 10000, 10000, 25, 100, 100),
     Candles(30, 9400, 10000, (100 * 9400) \div 88, 45, 100, 100)}

Failures ==
    {Fetched("none", Candles(0, 0, 0, 0, 0, 0, 0)),
     Fetched("raise", Candles(0, 0, 0, 0, 0, 0, 0)),
     Fetched("malformed", Candles(30, 0, 0, 0, 0, 0, 0)),
     Fetched("data", Candles(29, 10000, 10000, 10000, 25, 100, 100))}

StockFetches == Failures \cup {Fetched("data", d) : d \in StockCandles}
RankStockFetches ==
    Failures \cup {Fetched("data", d) : d \in RankStockCandles}

NavCandles(bars, close, c63, ar, vol) ==
    [bars |-> bars, close |-> close, close_63 |-> c63, annual_return |-> ar,
     volatility |-> vol]

\* NAV series of 70 bars against a close[-63] of 100.00 (quarter returns of
\* -9, -8, -6, -5, 0, 3 and 4 percent) and of 50 bars (no quarter return)
FundCandles ==
    {NavCandles(70, nav, 10000, ar, vol) :
        nav \in {9100, 9200, 9400, 9500, 10000, 10300, 10400},
        ar \in {Pct(-1), 0, Pct(2), Pct(3), Pct(6), Pct(10), Pct(12), Pct(13)},
        vol \in {0, Pct(5), Pct(10), Pct(20), Pct(30)}}
    \cup {NavCandles(50, 10000, 0, ar, vol) :
        ar \in {Pct(-1), 0, Pct(2), Pct(3), Pct(6), Pct(10), Pct(12), Pct(13)},
        vol \in {0, Pct(5), Pct(10), Pct(20), Pct(30)}}

RankFundCandles ==
    {NavCandles(70, 10400, 10000, Pct(13), Pct(5)),
     NavCandles(50, 10000, 0, Pct(6), Pct(20)),
     NavCandles(70, 9100, 10000, Pct(-1), Pct(30))}

FundFailures ==
    {Fetched("none", NavCandles(0, 0, 0, 0, 0)),
     Fetched("raise", NavCandles(0, 0, 0, 0, 0)),
     Fetched("malformed", NavCandles(50, 0, 0, 0, 0)),
     Fetched("data", NavCandles(49, 10000, 0, Pct(6), Pct(20)))}

FundFetches == FundFailures \cup {Fetched("data", d) : d \in FundCandles}
RankFundFetches ==
    FundFailures \cup {Fetched("data", d) : d \in RankFundCandles}

\* get_fund_info: {} (also when it caught an exception), a null ratio, a ratio
ExpenseInfos ==
    [annualReportExpenseRatio :
        {Absent, Null} \cup {Num(e) : e \in {30, 50, 200, 250}}]
RankExpenseInfos == [annualReportExpenseRatio : {Absent, Null}]

\* What a pass of the loop met: the kind of the fetch, "short" for a series
\* under the minimum length, "info_null" for a ratio of None
PassKind(f, min_bars, info) ==
    IF f.k # "data" THEN f.k
    ELSE IF f.d.bars < min_bars THEN "short"
    ELSE IF info.annualReportExpenseRatio.k = "null" THEN "info_null"
    ELSE "ok"

NoInfo == [annualReportExpenseRatio |-> Absent]

---------------------------------------------------------------------------
(* The callers *)

NoCall == [op |-> "none"]
NoResult == <<>>

LoopStart ==
    /\ idx = 1
    /\ recommendations = <<>>
    /\ fetches = [c \in 1..MaxUniverse |-> 0]
    /\ status = [c \in 1..MaxUniverse |-> "pending"]
    /\ last = "start"

\* The most calls counted after the remembered one
MaxBetween == 2

NoEarlier == [call |-> NoCall, ret |-> NoResult, between |-> 0]

\* One more call is made on the object
Later ==
    IF earlier.call = NoCall THEN earlier
    ELSE [earlier EXCEPT !.between = Min(@ + 1, MaxBetween)]

Init ==
    /\ pc = "idle"
    /\ call = NoCall
    /\ ret = NoResult
    /\ LoopStart
    /\ earlier = NoEarlier

\* AIPredictor.analyze_stock, on inputs drawn from the given sets
AnalyzeStockFrom(series, sentiments, infos) ==
    /\ pc = "idle"
    /\ \E d \in series, news \in sentiments, info \in infos :
         LET r == analyze_stock(d, news, info)
         IN  /\ call' = [op |-> "analyze_stock", stock_data |-> d,
                         news_sentiment |-> news, company_info |-> info]
             /\ ret' = r
             /\ pc' = IF r.raised THEN "raised" ELSE "returned"
    /\ UNCHANGED loopvars
    /\ earlier' = Later

\* AIPredictor.analyze_mutual_fund, on inputs drawn from the given sets
AnalyzeMutualFundFrom(series, infos) ==
    /\ pc = "idle"
    /\ \E d \in series, info \in infos :
         LET r == analyze_mutual_fund(d, info)
         IN  /\ call' = [op |-> "analyze_mutual_fund", fund_data |-> d,
                         fund_info |-> info]
             /\ ret' = r
             /\ pc' = IF r.raised THEN "raised" ELSE "returned"
    /\ UNCHANGED loopvars
    /\ earlier' = Later

AnalyzeStock == AnalyzeStockFrom(StockSeries, NewsSentiments, CompanyInfos)

AnalyzeMutualFund == AnalyzeMutualFundFrom(FundSeries, FundInfos)

\* One candidate of the stock ranker, evaluated alone: the loop body of
\* _get_smart_stock_recommendations on any entry of the universe
EvaluateStock ==
    /\ pc = "idle"
    /\ \E t \in RecommendationTypes, c \in 1..Len(popular_stocks), f \in StockFetches :
         /\ call' = [op |-> "evaluate_stock", recommendation_type |-> t,
                     entry |-> popular_stocks[c], fetched |-> f]
         /\ ret' = StockLoopBody(t, popular_stocks[c], f)
    /\ pc' = "returned"
    /\ UNCHANGED loopvars
    /\ earlier' = Later

\* One candidate of the fund ranker, evaluated alone
EvaluateFund ==
    /\ pc = "idle"
    /\ \E t \in RecommendationTypes, c \in 1..Len(popular_funds),
          f \in FundFetches, info \in ExpenseInfos :
         /\ call' = [op |-> "evaluate_fund", recommendation_type |-> t,
                     entry |-> popular_funds[c], fetched |-> f, fund_info |-> info]
         /\ ret' = FundLoopBody(t, popular_funds[c], f, info)
    /\ pc' = "returned"
    /\ UNCHANGED loopvars
    /\ earlier' = Later

\* _get_fallback_stock_recommendations and _get_fallback_mf_recommendations
Fallback ==
    /\ pc = "idle"
    /\ \E t \in RecommendationTypes :
         \/ /\ call' = [op |-> "fallback_stocks", recommendation_type |-> t]
            /\ ret' = get_fallback_stock_recommendations(t)
         \/ /\ call' = [op |-> "fallback_funds", recommendation_type |-> t]
            /\ ret' = get_fallback_mf_recommendations(t)
    /\ pc' = "returned"
    /\ UNCHANGED loopvars
    /\ earlier' = Later

\* AIPredictor.get_top_stock_recommendations: the call, up to the loop of
\* _get_smart_stock_recommendations. An exception before the loop (the import,
\* DataFetcher()) is caught by get_top_stock_recommendations, which returns
\* the fallback list.
CallTopStocks ==
    /\ pc = "idle"
    /\ \E t \in RecommendationTypes, setup \in {"ok", "raise"} :
         /\ call' = [op |-> "get_top_stock_recommendations",
                     recommendation_type |-> t]
         /\ IF setup = "raise"
            THEN /\ pc' = "returned"
                 /\ ret' = get_fallback_stock_recommendations(t)
                 /\ last' = "routine_raise"
            ELSE /\ pc' = "loop"
                 /\ ret' = NoResult
                 /\ last' = "start"
    /\ UNCHANGED <<idx, recommendations, fetches, status>>
    /\ earlier' = Later

\* One pass of: for symbol, name, sector in popular_stocks
StockPass ==
    /\ pc = "loop"
    /\ call.op = "get_top_stock_recommendations"
    /\ idx <= Len(StockUniverse)
    /\ \E f \in RankStockFetches :
         LET items == StockLoopBody(call.recommendation_type, StockUniverse[idx], f)
         IN  /\ recommendations' = recommendations \o items
             /\ status' = [status EXCEPT ![idx] = IF items = <<>> THEN "skipped" ELSE "ok"]
             /\ last' = PassKind(f, 30, NoInfo)
    /\ fetches' = [fetches EXCEPT ![idx] = @ + 1]
    /\ idx' = idx + 1
    /\ UNCHANGED <<pc, call, ret, earlier>>

\* After the loop: sort by score, return the top 5 or the fallback list
StockFinish ==
    /\ pc = "loop"
    /\ call.op = "get_top_stock_recommendations"
    /\ idx > Len(StockUniverse)
    /\ ret' = TopStocks(recommendations, call.recommendation_type)
    /\ pc' = "returned"
    /\ UNCHANGED <<call, idx, recommendations, fetches, status, last, earlier>>

\* AIPredictor.get_top_mf_recommendations
CallTopFunds ==
    /\ pc = "idle"
    /\ \E t \in RecommendationTypes, setup \in {"ok", "raise"} :
         /\ call' = [op |-> "get_top_mf_recommendations",
                     recommendation_type |-> t]
         /\ IF setup = "raise"
            THEN /\ pc' = "returned"
                 /\ ret' = get_fallback_mf_recommendations(t)
                 /\ last' = "routine_raise"
            ELSE /\ pc' = "loop"
                 /\ ret' = NoResult
                 /\ last' = "start"
    /\ UNCHANGED <<idx, recommendations, fetches, status>>
    /\ earlier' = Later

\* One pass of: for symbol, name, category in popular_funds
FundPass ==
    /\ pc = "loop"
    /\ call.op = "get_top_mf_recommendations"
    /\ idx <= Len(FundUniverse)
    /\ \E f \in RankFundFetches, info \in RankExpenseInfos :
         LET items == FundLoopBody(call.recommendation_type, FundUniverse[idx], f, info)
         IN  /\ recommendations' = recommendations \o items
             /\ status' = [status EXCEPT ![idx] = IF items = <<>> THEN "skipped" ELSE "ok"]
             /\ last' = PassKind(f, 50, info)
    /\ fetches' = [fetches EXCEPT ![idx] = @ + 1]
    /\ idx' = idx + 1
    /\ UNCHANGED <<pc, call, ret, earlier>>

FundFinish ==
    /\ pc = "loop"
    /\ call.op = "get_top_mf_recommendations"
    /\ idx > Len(FundUniverse)
    /\ ret' = TopFunds(recommendations, call.recommendation_type)
    /\ pc' = "returned"
    /\ UNCHANGED <<call, idx, recommendations, fetches, status, last, earlier>>

\* The caller takes the result (or the exception) and is ready again
Return ==
    /\ pc \in {"returned", "raised", "edited"}
    /\ pc' = "idle"
    /\ call' = NoCall
    /\ ret' = NoResult
    /\ idx' = 1
    /\ recommendations' = <<>>
    /\ fetches' = [c \in 1..MaxUniverse |-> 0]
    /\ status' = [c \in 1..MaxUniverse |-> "pending"]
    /\ last' = "start"
    /\ UNCHANGED earlier

\* The scoring engine and the mapper: every entry point that computes a
\* recommendation from given inputs
Next ==
    \/ Fallback
    \/ EvaluateStock
    \/ EvaluateFund
    \/ AnalyzeMutualFund
    \/ AnalyzeStock
    \/ Return

Spec == Init /\ [][Next]_vars

\* The universe ranker
RankNext ==
    \/ CallTopStocks
    \/ StockPass
    \/ StockFinish
    \/ CallTopFunds
    \/ FundPass
    \/ FundFinish
    \/ Return

RankSpec == Init /\ [][RankNext]_vars

\* The orders in which the results of the candidates are appended: the order
\* of the universe, its reverse, and every exchange of two candidates
AppendOrders ==
    LET N == Len(StockUniverse)
    IN  {[k \in 1..N |-> k], [k \in 1..N |-> N + 1 - k]}
        \cup {[k \in 1..N |-> IF k = i THEN j ELSE IF k = j THEN i ELSE k] :
                i \in 1..N, j \in 1..N}

\* The result of every candidate, each a success on one of the three series
CandidateResults(recommendation_type, fs) ==
    [c \in 1..Len(StockUniverse) |->
        StockLoopBody(recommendation_type, StockUniverse[c],
                      Fetched("data", fs[c]))[1]]

\* recommendations.sort(...) and the return, applied to the results of the
\* candidates appended in any of these orders
SortAppended ==
    /\ pc = "idle"
    /\ \E t \in RecommendationTypes, order \in AppendOrders,
          fs \in [1..Len(StockUniverse) -> RankStockCandles] :
         LET results == CandidateResults(t, fs)
             appended == [k \in 1..Len(StockUniverse) |-> results[order[k]]]
         IN  /\ call' = [op |-> "sort_recommendations",
                         recommendation_type |-> t,
                         results |-> results, appended |-> appended]
             /\ ret' = TopStocks(appended, t)
    /\ pc' = "returned"
    /\ UNCHANGED loopvars
    /\ earlier' = Later

OrderNext ==
    \/ SortAppended
    \/ Return

OrderSpec == Init /\ [][OrderNext]_vars

\* --- a session: calls on one AIPredictor, one after the other ---

\* Series, sentiments and fundamentals of the calls of a session: no bars
\* (the analysis raises and the fallback answers), a rising and a falling
\* 60-bar series
SessionStockSeries ==
    {Series(0, 0, 0, 0, 0, 0, 0, 0, 0),
     Series(60, 11000, 10000, 9500, 1, 3, 100, 130, 30),
     Series(60, 11000, 12000, 12500, 7, 3, 100, 70, 35)}

SessionSentiments == {Absent, Num(30), Num(75)}

SessionCompanyInfos ==
    {[marketCap |-> Num(10), trailingPE |-> Num(8)],
     [marketCap |-> Num(3000), trailingPE |-> Num(35)],
     [marketCap |-> Null, trailingPE |-> Absent]}

SessionFundSeries ==
    {NavSeries(0, 0, 0, 0, 0),
     NavSeries(10, 10000, 0, Pct(15), 65),
     NavSeries(30, 8900, 10000, Pct(-1), Pct(30))}

SessionFundInfos ==
    {[annualReportExpenseRatio |-> Num(30), totalAssets |-> Num(15000)],
     [annualReportExpenseRatio |-> Num(250), totalAssets |-> Num(50)],
     [annualReportExpenseRatio |-> Absent, totalAssets |-> Null]}

SessionAnalyzeStock ==
    AnalyzeStockFrom(SessionStockSeries, SessionSentiments, SessionCompanyInfos)

SessionAnalyzeMutualFund ==
    AnalyzeMutualFundFrom(SessionFundSeries, SessionFundInfos)

\* The caller changes the dicts of the list it was given
EditResult ==
    /\ pc = "returned"
    /\ call.op \in {"fallback_stocks", "fallback_funds"}
    /\ ret' = [i \in 1..Len(ret) |->
                 [ret[i] EXCEPT !.target_price = 0, !.price_change = 0,
                                !.reasoning = "edited by the caller"]]
    /\ pc' = "edited"
    /\ UNCHANGED <<call, loopvars, earlier>>

\* History only: the call just finished, and what the caller holds of it,
\* is the one later results are compared with
Remember ==
    /\ pc \in {"returned", "raised", "edited"}
    /\ earlier' = [call |-> call, ret |-> ret, between |-> 0]
    /\ earlier' # earlier
    /\ UNCHANGED <<pc, call, ret, loopvars>>

SessionNext ==
    \/ SessionAnalyzeStock
    \/ SessionAnalyzeMutualFund
    \/ Fallback
    \/ EditResult
    \/ Remember
    \/ Return

SessionSpec == Init /\ [][SessionNext]_vars

---------------------------------------------------------------------------
(* The indicator library on whole closing-price series *)

\* A series is the sequence of its closing prices, oldest first, all positive.

RECURSIVE SumOver(_, _, _)
SumOver(values, first, last_) ==
    IF first > last_ THEN 0 ELSE values[last_] + SumOver(values, first, last_ - 1)

\* delta.where(delta > 0, 0): the delta of the first bar is NaN, NaN > 0 is
\* False, so the first gain (and the first loss) is 0
Gains(close) ==
    [t \in 1..Len(close) |->
        IF t > 1 /\ close[t] > close[t - 1] THEN close[t] - close[t - 1] ELSE 0]

\* -delta.where(delta < 0, 0)
Losses(close) ==
    [t \in 1..Len(close) |->
        IF t > 1 /\ close[t] < close[t - 1] THEN close[t - 1] - close[t] ELSE 0]

\* values.rolling(window).mean().iloc[-1] of a non-empty series without NaN:
\* NaN while the series is shorter than the window
RollingMean(values, window) ==
    IF Len(values) < window THEN NaN
    ELSE Frac(SumOver(values, Len(values) - window + 1, Len(values)), window)

\* (100 - 100 / (1 + gain / loss)).iloc[-1] with the two 14-bar rolling means
RollingRsi(close) ==
    LET avg_gain == RollingMean(Gains(close), 14)
        avg_loss == RollingMean(Losses(close), 14)
    IN  IF avg_gain.nan THEN NaN ELSE RsiValue(avg_gain.num, avg_loss.num)

\* returns.std(): NaN with fewer than two returns; zero when all returns are
\* equal (c[t] / c[t-1] = c[t-1] / c[t-2] throughout); positive otherwise
ReturnsStd(close) ==
    IF Len(close) < 3 THEN "nan"
    ELSE IF \A t \in 3..Len(close) :
               close[t] * close[t - 2] = close[t - 1] * close[t - 1]
         THEN "zero"
         ELSE "positive"

\* DataFetcher.calculate_technical_indicators: on an empty series iloc[-1]
\* raises and the except branch returns zeros
calculate_technical_indicators(close) ==
    IF Len(close) = 0
    THEN [rsi |-> Frac(0, 1), sma_20 |-> Frac(0, 1), sma_50 |-> Frac(0, 1),
          volatility |-> "zero"]
    ELSE [rsi |-> RollingRsi(close),
          sma_20 |-> RollingMean(close, 20),
          sma_50 |-> RollingMean(close, 50),
          volatility |-> ReturnsStd(close)]

\* What _get_advanced_stock_analysis reads of a non-empty series: the values
\* of the record Series, the means rounded down to the unit of the prices and
\* the 14-bar averages of gains and losses as their sums
StockSummary(close) ==
    LET n == Len(close)
        sma_20 == RollingMean(close, 20)
        sma_50 == RollingMean(close, 50)
        gain == RollingMean(Gains(close), 14)
        loss == RollingMean(Losses(close), 14)
    IN  Series(n, close[n],
               IF sma_20.nan THEN 0 ELSE sma_20.num \div sma_20.den,
               IF sma_50.nan THEN 0 ELSE sma_50.num \div sma_50.den,
               IF gain.nan THEN 0 ELSE gain.num,
               IF loss.nan THEN 0 ELSE loss.num,
               0, 0, 0)

\* sma_20, sma_50 and rsi of _get_advanced_stock_analysis
stock_indicators(close) ==
    LET d == StockSummary(close)
    IN  [raised |-> FALSE, current_price |-> d.close,
         sma_20 |-> Frac(Sma20(d), 1), sma_50 |-> Frac(Sma50(d), 1),
         rsi |-> Rsi(d)]

\* sharpe_ratio = (annual_return - 2) / volatility if volatility > 0 else 0
\* in the fund analysis and in the fund ranker: NaN > 0 and 0 > 0 are False
AnalysisSharpe(close) ==
    IF ReturnsStd(close) = "positive" THEN "finite" ELSE "zero"

\* (excess_returns.mean() / returns.std()) * sqrt(252) of
\* calculate_fund_performance, where excess is over 0.02 / 252 a day: with a
\* zero deviation every return is close[2] / close[1] - 1, and the quotient
\* is inf, -inf, or NaN for 0 / 0
PerformanceSharpe(close) ==
    LET std == ReturnsStd(close)
        excess == (close[2] - close[1]) * 25200 - 2 * close[1]
    IN  IF std = "nan" THEN "nan"
        ELSE IF std = "positive" THEN "finite"
        ELSE IF excess > 0 THEN "inf"
        ELSE IF excess < 0 THEN "-inf"
        ELSE "nan"

\* Mutant: the running maximum is the higher of the bar and the one before
ExpandingMax_TwoBars(close) ==
    [t \in 1..Len(close) |->
        IF t > 1 THEN Max(close[t - 1], close[t]) ELSE close[t]]

\* close_prices.expanding().max(): the maximum from the first bar to each bar
RECURSIVE ExpandingMax(_)
ExpandingMax(close) ==
    IF Len(close) <= 1 THEN close
    ELSE LET before == ExpandingMax(SubSeq(close, 1, Len(close) - 1))
         IN  Append(before, Max(before[Len(before)], close[Len(close)]))

\* The lowest of a non-empty sequence of fractions
MinFrac(fracs) ==
    LET t == CHOOSE i \in 1..Len(fracs) :
                \A k \in 1..Len(fracs) :
                    fracs[i].num * fracs[k].den <= fracs[k].num * fracs[i].den
    IN  fracs[t]

\* drawdown = close / rolling_max - 1; max_drawdown = drawdown.min() * 100
MaxDrawdown(close) ==
    LET rolling_max == ExpandingMax(close)
        drawdown == [t \in 1..Len(close) |->
                        Frac(close[t] - rolling_max[t], rolling_max[t])]
        lowest == MinFrac(drawdown)
    IN  Frac(lowest.num * 100, lowest.den)

\* DataFetcher.calculate_fund_performance: on an empty series iloc[-1] raises
\* and the except branch returns zeros
calculate_fund_performance(close) ==
    IF Len(close) = 0
    THEN [one_year_return |-> Frac(0, 1), sharpe_ratio |-> "zero",
          max_drawdown |-> Frac(0, 1)]
    ELSE [one_year_return |->
              Frac((close[Len(close)] - close[1]) * 100, close[1]),
          sharpe_ratio |-> PerformanceSharpe(close),
          max_drawdown |-> MaxDrawdown(close)]

\* --- the series the library is run on ---

\* The longest of the series of arbitrary prices
MaxFree == 3

Lengths == {1, 2, 3, 13, 14, 15, 19, 20, 21, 49, 50, 51}

Rising(n, step) == [t \in 1..n |-> 100 + step * (t - 1)]
Falling(n, step) == [t \in 1..n |-> 400 - step * (t - 1)]
Flat(n) == [t \in 1..n |-> 100]
Zigzag(n) == [t \in 1..n |-> IF t % 2 = 1 THEN 100 ELSE 104]
\* climbs by 2 a bar, and the last bar is half of the bar before it
Halving(n) == [t \in 1..n |-> IF t < n THEN 100 + 2 * (t - 1) ELSE 50 + (n - 2)]
\* climbs by 10 a bar, falls to a fifth of the peak and ends at half of it
DipThenHalf(n) ==
    LET peak == 100 + 10 * (n - 3)
    IN  [t \in 1..n |-> IF t <= n - 2 THEN 100 + 10 * (t - 1)
                        ELSE IF t = n - 1 THEN peak \div 5 ELSE peak \div 2]

FreeSeries ==
    UNION {[1..n -> {40, 50, 100, 200}] : n \in 1..MaxFree}

IndicatorSeries ==
    {Rising(n, step) : n \in Lengths, step \in {1, 2}}
    \cup {Falling(n, step) : n \in Lengths, step \in {1, 2}}
    \cup {Flat(n) : n \in Lengths}
    \cup {Zigzag(n) : n \in Lengths}
    \cup {Halving(n) : n \in Lengths \ {1}}
    \cup {DipThenHalf(n) : n \in Lengths \ {1, 2}}
    \cup FreeSeries

\* --- the calls ---

CalculateTechnicalIndicators ==
    /\ pc = "idle"
    /\ \E close \in IndicatorSeries \cup {<<>>} :
         /\ call' = [op |-> "calculate_technical_indicators", close |-> close]
         /\ ret' = calculate_technical_indicators(close)
    /\ pc' = "returned"
    /\ UNCHANGED loopvars
    /\ earlier' = Later

CalculateFundPerformance ==
    /\ pc = "idle"
    /\ \E close \in IndicatorSeries \cup {<<>>} :
         /\ call' = [op |-> "calculate_fund_performance", close |-> close]
         /\ ret' = calculate_fund_performance(close)
    /\ pc' = "returned"
    /\ UNCHANGED loopvars
    /\ earlier' = Later

\* The indicators of _get_advanced_stock_analysis; on an empty series
\* stock_data['Close'].iloc[-1] raises
StockIndicators ==
    /\ pc = "idle"
    /\ \E close \in IndicatorSeries \cup {<<>>} :
         /\ call' = [op |-> "stock_indicators", close |-> close]
         /\ ret' = IF close = <<>> THEN Raised ELSE stock_indicators(close)
         /\ pc' = IF close = <<>> THEN "raised" ELSE "returned"
    /\ UNCHANGED loopvars
    /\ earlier' = Later

\* The Sharpe ratio of _get_advanced_fund_analysis
FundSharpe ==
    /\ pc = "idle"
    /\ \E close \in IndicatorSeries :
         /\ call' = [op |-> "fund_analysis_sharpe", close |-> close]
         /\ ret' = [sharpe_ratio |-> AnalysisSharpe(close)]
    /\ pc' = "returned"
    /\ UNCHANGED loopvars
    /\ earlier' = Later

\* The Sharpe ratio of _get_smart_mf_recommendations, computed for the
\* candidates whose series has 50 bars or more
RankerSharpe ==
    /\ pc = "idle"
    /\ \E close \in {c \in IndicatorSeries : Len(c) >= 50} :
         /\ call' = [op |-> "fund_ranker_sharpe", close |-> close]
         /\ ret' = [sharpe_ratio |-> AnalysisSharpe(close)]
    /\ pc' = "returned"
    /\ UNCHANGED loopvars
    /\ earlier' = Later

IndicatorNext ==
    \/ CalculateTechnicalIndicators
    \/ CalculateFundPerformance
    \/ StockIndicators
    \/ FundSharpe
    \/ RankerSharpe
    \/ Return

IndicatorSpec == Init /\ [][IndicatorNext]_vars

---------------------------------------------------------------------------
(* The single-symbol entry points *)

\* The two st.error messages of the entry points (without the symbol)
CouldNotFetch == "Could not fetch data for the symbol. Please check the symbol and try again."
ErrorOccurred == "An error occurred while analyzing the symbol"

\* What get_stock_data and get_mutual_fund_data return: None, or the series,
\* never an empty one
FetchedNone(d) == [none |-> TRUE, data |-> d]
FetchedData(d) == [none |-> FALSE, data |-> d]

\* A one-bar series has no return: its volatility is NaN, every test of the
\* analysis on it is volatility > n and is False, as it is for 0.
EntryStockSeries ==
    {Series(1, 11000, 0, 0, 0, 0, 0, 100, 0),
     Series(10, 11000, 0, 0, 0, 0, 0, 100, 30),
     Series(15, 11000, 0, 0, 1, 3, 0, 100, 35),
     Series(30, 11000, 12000, 0, 7, 3, 100, 130, 30),
     Series(60, 11000, 10000, 9500, 1, 0, 100, 120, 35)}

EntryStockFetches ==
    {FetchedNone(Series(0, 0, 0, 0, 0, 0, 0, 0, 0))}
    \cup {FetchedData(d) : d \in EntryStockSeries}

\* What get_company_info returns: ticker.info, or {} when the fetch failed.
\* other_keys: the dictionary holds keys beside the two (longName, sector).
EntryCompanyInfos ==
    [marketCap : {Absent, Null, Num(2000)},
     trailingPE : {Absent, Null, Num(25)},
     other_keys : BOOLEAN]

\* What get_news_sentiment returns: None, or a dictionary with a score
EntrySentiments == {[k |-> "none", v |-> 0], Num(35), Num(70)}

\* Of a one-bar series only the length and the last close are given: the
\* entry point fails on it before the analysis when the info is not empty,
\* and otherwise reads of the analysis only whether it raised.
EntryFundSeries ==
    {NavSeries(1, 10000, 0, 0, 0),
     NavSeries(10, 10000, 0, Pct(8), Pct(15)),
     NavSeries(30, 10300, 10000, Pct(15), 65),
     NavSeries(30, 8900, 10000, Pct(-1), Pct(30))}

EntryFundFetches ==
    {FetchedNone(NavSeries(0, 0, 0, 0, 0))}
    \cup {FetchedData(d) : d \in EntryFundSeries}

EntryFundInfos ==
    [annualReportExpenseRatio : {Absent, Null, Num(150)},
     totalAssets : {Absent, Null, Num(1000)},
     other_keys : BOOLEAN]

\* if company_info: a dictionary is true when it has a key
HasKeys(info, fields) ==
    info.other_keys \/ \E f \in fields : info[f].k # "absent"

\* What the user is shown (the st.error messages) and the collaborators the
\* entry point has called, in order
Shown(messages, invoked) ==
    [raised |-> FALSE, shown |-> messages, invoked |-> invoked]

\* app.analyze_individual_stock
analyze_individual_stock(f, company_info, news_sentiment) ==
    LET stock_data == f.data
        fetched == <<"get_stock_data", "get_company_info", "get_news_sentiment">>
        charted == fetched \o <<"create_stock_chart", "analyze_stock">>
    IN  IF f.none THEN Shown(<<CouldNotFetch>>, <<"get_stock_data">>)
        \* f"{None:,.0f}", f"{None:.2f}" and .iloc[-2] of a one-bar series raise
        ELSE IF /\ HasKeys(company_info, {"marketCap", "trailingPE"})
                /\ \/ Get(company_info.marketCap, 0).k = "null"
                   \/ Get(company_info.trailingPE, 0).k = "null"
                   \/ stock_data.bars < 2
             THEN Shown(<<ErrorOccurred>>, fetched)
        ELSE IF analyze_stock(stock_data, news_sentiment, company_info).raised
             THEN Shown(<<ErrorOccurred>>, charted)
        ELSE Shown(<<>>, charted \o <<"calculate_technical_indicators">>)

\* app.analyze_individual_mutual_fund (no 'holdings' key in the info)
analyze_individual_mutual_fund(f, fund_info) ==
    LET fund_data == f.data
        fetched == <<"get_mutual_fund_data", "get_fund_info">>
        charted == fetched \o <<"create_mutual_fund_chart", "analyze_mutual_fund">>
    IN  IF f.none THEN Shown(<<CouldNotFetch>>, <<"get_mutual_fund_data">>)
        \* f"{None:,.0f}", None * 100 and .iloc[-2] of a one-bar series raise
        ELSE IF /\ HasKeys(fund_info, {"annualReportExpenseRatio", "totalAssets"})
                /\ \/ Get(fund_info.totalAssets, 0).k = "null"
                   \/ Get(fund_info.annualReportExpenseRatio, 0).k = "null"
                   \/ fund_data.bars < 2
             THEN Shown(<<ErrorOccurred>>, fetched)
        ELSE IF analyze_mutual_fund(fund_data, fund_info).raised
             THEN Shown(<<ErrorOccurred>>, charted)
        ELSE Shown(<<>>, charted \o <<"calculate_fund_performance">>)

\* pages.stock_analysis.analyze_stock_detailed and the
\* display_stock_analysis_results it ends with
analyze_stock_detailed(f, company_info, news_sentiment) ==
    LET stock_data == f.data
        analysed == <<"get_stock_data", "get_company_info", "get_news_sentiment",
                      "get_company_news", "analyze_news_sentiment",
                      "analyze_stock">>
    IN  IF f.none \/ stock_data.bars = 0
        THEN Shown(<<CouldNotFetch>>, <<"get_stock_data">>)
        ELSE IF analyze_stock(stock_data, news_sentiment, company_info).raised
             THEN Shown(<<ErrorOccurred>>, analysed)
        \* market_cap > 1e12 raises on None
        ELSE IF /\ HasKeys(company_info, {"marketCap", "trailingPE"})
                /\ Get(company_info.marketCap, 0).k = "null"
             THEN Shown(<<ErrorOccurred>>, analysed)
        \* current_price is bound under "if company_info:" only and is read
        \* by the YTD return of the first tab
        ELSE IF ~HasKeys(company_info, {"marketCap", "trailingPE"})
             THEN Shown(<<ErrorOccurred>>, analysed \o <<"create_stock_chart">>)
        ELSE Shown(<<>>, analysed \o <<"create_stock_chart",
                                       "calculate_technical_indicators">>)

AnalyzeIndividualStock ==
    /\ pc = "idle"
    /\ \E f \in EntryStockFetches, info \in EntryCompanyInfos,
          news \in EntrySentiments :
         /\ call' = [op |-> "analyze_individual_stock", fetched |-> f,
                     company_info |-> info, news_sentiment |-> news]
         /\ ret' = analyze_individual_stock(f, info, news)
    /\ pc' = "returned"
    /\ UNCHANGED loopvars
    /\ earlier' = Later

AnalyzeIndividualMutualFund ==
    /\ pc = "idle"
    /\ \E f \in EntryFundFetches, info \in EntryFundInfos :
         /\ call' = [op |-> "analyze_individual_mutual_fund", fetched |-> f,
                     fund_info |-> info]
         /\ ret' = analyze_individual_mutual_fund(f, info)
    /\ pc' = "returned"
    /\ UNCHANGED loopvars
    /\ earlier' = Later

AnalyzeStockDetailed ==
    /\ pc = "idle"
    /\ \E f \in EntryStockFetches, info \in EntryCompanyInfos,
          news \in EntrySentiments :
         /\ call' = [op |-> "analyze_stock_detailed", fetched |-> f,
                     company_info |-> info, news_sentiment |-> news]
         /\ ret' = analyze_stock_detailed(f, info, news)
    /\ pc' = "returned"
    /\ UNCHANGED loopvars
    /\ earlier' = Later

EntryNext ==
    \/ AnalyzeIndividualStock
    \/ AnalyzeIndividualMutualFund
    \/ AnalyzeStockDetailed
    \/ Return

EntrySpec == Init /\ [][EntryNext]_vars

---------------------------------------------------------------------------
(* Properties *)

StockAnalysed ==
    pc = "returned" /\ call.op = "analyze_stock" /\ ~ret.fallback
FundAnalysed ==
    pc = "returned" /\ call.op = "analyze_mutual_fund" /\ ~ret.fallback

\* C1: the equity analysis gives BUY exactly for a total score of 3 or more,
\* SELL exactly for -2 or less, and HOLD exactly for the scores strictly
\* between (scores in half points: 6 and -4).
C1_EquityAction ==
    StockAnalysed =>
        /\ ret.recommendation \in {"BUY", "SELL", "HOLD"}
        /\ (ret.recommendation = "BUY") <=> (ret.total_score >= 6)
        /\ (ret.recommendation = "SELL") <=> (ret.total_score <= -4)
        /\ (ret.recommendation = "HOLD") <=>
               (ret.total_score > -4 /\ ret.total_score < 6)

\* A SELL at the threshold score of exactly -2
C1_Witness ==
    StockAnalysed /\ ret.total_score = -4 /\ ret.recommendation = "SELL"

\* C2: for every reachable equity score, confidence and target multiplier are
\* those of the reference table (thousandths; 0.05 and 0.02 a point are 25
\* and 10 a half point).
C2_EquityTable ==
    StockAnalysed =>
        LET s == ret.total_score
        IN  /\ ret.recommendation = "BUY" =>
                 /\ ret.confidence = Min(850, 600 + (s - 6) * 25)
                 /\ ret.target_multiplier = 1100 + (s - 6) * 10
            /\ ret.recommendation = "SELL" =>
                 /\ ret.confidence = Min(800, 600 + Abs(s + 4) * 25)
                 /\ ret.target_multiplier = 900 - Abs(s + 4) * 10
            /\ ret.recommendation = "HOLD" =>
                 /\ ret.confidence = 600 + Abs(s) * 25
                 /\ s > 0 => ret.target_multiplier = 1030
                 /\ s <= 0 => ret.target_multiplier = 970

\* A HOLD at score 0, which takes the lower multiplier
C2_Witness ==
    StockAnalysed /\ ret.total_score = 0 /\ ret.recommendation = "HOLD"
    /\ ret.target_multiplier = 970 /\ ret.confidence = 600

\* C3: the fund analysis has its own table: BUY exactly from 4, SELL exactly
\* up to -2, HOLD between, with the fund formulas (0.03 and 0.01 a point are
\* 15 and 5 a half point; 0.02 a point is 10); a fund score of 3 or 3.5 is
\* HOLD, where the equity table gives BUY.
C3_FundTable ==
    FundAnalysed =>
        LET s == ret.total_score
        IN  /\ (ret.recommendation = "BUY") <=> (s >= 8)
            /\ (ret.recommendation = "SELL") <=> (s <= -4)
            /\ (ret.recommendation = "HOLD") <=> (s > -4 /\ s < 8)
            /\ ret.recommendation = "BUY" =>
                 /\ ret.confidence = Min(850, 650 + (s - 8) * 15)
                 /\ ret.target_multiplier = 1080 + (s - 8) * 5
            /\ ret.recommendation = "SELL" =>
                 /\ ret.confidence = Min(800, 600 + Abs(s + 4) * 15)
                 /\ ret.target_multiplier = 920 - Abs(s + 4) * 5
            /\ ret.recommendation = "HOLD" =>
                 /\ ret.confidence = 650 + Abs(s) * 10
                 /\ ret.target_multiplier = IF s > 0 THEN 1040 ELSE 980
            /\ s \in {6, 7} =>
                 /\ ret.recommendation = "HOLD"
                 /\ StockRecommendation(s).recommendation = "BUY"

\* A fund of score 3.5, held
C3_Witness ==
    FundAnalysed /\ ret.total_score = 7 /\ ret.recommendation = "HOLD"

\* C4: every confidence the engine returns lies in [0, 1]: the two analyses
\* and their fallbacks, every item a ranker computes, every canned item.
C4_ConfidenceBounded ==
    pc = "returned" =>
        IF call.op \in {"analyze_stock", "analyze_mutual_fund"}
        THEN ret.confidence >= 0 /\ ret.confidence <= 1000
        ELSE \A i \in 1..Len(ret) :
                ret[i].confidence >= 0 /\ ret[i].confidence <= 1000

\* The highest confidence of the uncapped equity HOLD formula, at score 2.5
C4_Witness ==
    StockAnalysed /\ ret.recommendation = "HOLD" /\ ret.total_score = 5
    /\ ret.confidence = 725

\* The inputs of C5: price 110, SMA20 100, SMA50 95, RSI 25, volume ratio 1.3,
\* P/E 8, market cap 1e9, sentiment 0.75
C5_Inputs ==
    /\ pc = "returned"
    /\ call.op = "analyze_stock"
    /\ call.stock_data.close = 11000
    /\ Sma20(call.stock_data) = 10000
    /\ Sma50(call.stock_data) = 9500
    /\ ~Rsi(call.stock_data).nan
    /\ Rsi(call.stock_data).num = 25 * Rsi(call.stock_data).den
    /\ 10 * VolumeTrend(call.stock_data).num = 13 * VolumeTrend(call.stock_data).den
    /\ call.company_info.trailingPE = Num(8)
    /\ call.company_info.marketCap = Num(10)
    /\ call.news_sentiment = Num(75)

\* C5: these inputs score 8 (technical 2 + 1 + 1, fundamental 2 + 1,
\* sentiment 1) and give BUY with confidence 0.85 and multiplier 1.20.
C5_EquityExample ==
    C5_Inputs =>
        /\ ~ret.fallback
        /\ ret.technical_score = 8
        /\ ret.fundamental_score = 6
        /\ ret.sentiment_adjustment = 2
        /\ ret.total_score = 16
        /\ ret.recommendation = "BUY"
        /\ ret.confidence = 850
        /\ ret.target_multiplier = 1200
        /\ ret.target_price = 11000 * 1200

C5_Witness == C5_Inputs /\ ret.total_score = 16

\* The inputs of C6: annual return 15%, Sharpe 1.8, expense ratio 0.3%, total
\* assets 15e9, and no momentum contribution
C6_Inputs ==
    /\ pc = "returned"
    /\ call.op = "analyze_mutual_fund"
    /\ call.fund_data.annual_return = Pct(15)
    /\ LET sr == SharpeRatio(call.fund_data.annual_return, call.fund_data.volatility)
       IN  5 * sr.num = 9 * sr.den
    /\ call.fund_info.annualReportExpenseRatio = Num(30)
    /\ call.fund_info.totalAssets = Num(15000)
    /\ MomentumScore(call.fund_data) = 0

\* C6: this fund has performance score 5, cost score 2, size score 1, total
\* 8, and gets BUY with confidence 0.77.
C6_FundExample ==
    C6_Inputs =>
        /\ ~ret.fallback
        /\ ret.performance_score = 10
        /\ ret.cost_score = 4
        /\ ret.size_score = 2
        /\ ret.momentum_score = 0
        /\ ret.total_score = 16
        /\ ret.recommendation = "BUY"
        /\ ret.confidence = 770

C6_Witness == C6_Inputs /\ ret.total_score = 16 /\ Has21d(call.fund_data)

---------------------------------------------------------------------------
(* Properties of the universe ranker *)

RankOps == {"get_top_stock_recommendations", "get_top_mf_recommendations"}
RankReturned == pc = "returned" /\ call.op \in RankOps
IsStockRank == call.op = "get_top_stock_recommendations"
Universe == IF IsStockRank THEN StockUniverse ELSE FundUniverse
Candidates == 1..Len(Universe)
Symbols(list) == {list[i].symbol : i \in 1..Len(list)}
AllSkipped == \A c \in Candidates : status[c] = "skipped"

\* C7: when every candidate was skipped, the ranker returns exactly the five
\* canned items of its asset class and direction, each with symbol,
\* target_price, reasoning and a confidence in [0, 1].
C7_AllFailFallback ==
    (RankReturned /\ AllSkipped) =>
        /\ Len(ret) = 5
        /\ [i \in 1..5 |-> ret[i].symbol] =
              IF IsStockRank
              THEN <<"RELIANCE.NS", "TCS.NS", "HDFCBANK.NS", "INFY.NS", "ITC.NS">>
              ELSE <<"SBI-BLUECHIP", "HDFC-TOP100", "ICICI-BLUECHIP",
                     "AXIS-BLUECHIP", "MIRAE-LARGECAP">>
        /\ ret = IF IsStockRank
                 THEN get_fallback_stock_recommendations(call.recommendation_type)
                 ELSE get_fallback_mf_recommendations(call.recommendation_type)
        /\ \A i \in 1..5 :
              /\ {"symbol", "target_price", "confidence", "reasoning"}
                    \subseteq DOMAIN ret[i]
              /\ ret[i].confidence >= 0 /\ ret[i].confidence <= 1000
              /\ IF call.recommendation_type = "SELL"
                 THEN ret[i].target_price = ret[i].current_price
                         * (IF IsStockRank THEN 950 ELSE 970)
                 ELSE ret[i].target_price > ret[i].current_price * 1000

\* A SELL search over funds in which the last fetch, like all others, failed
C7_Witness ==
    /\ RankReturned /\ AllSkipped
    /\ ~IsStockRank
    /\ call.recommendation_type = "SELL"
    /\ last = "none"

C8_Inv ==
    /\ call.op \in RankOps => pc # "raised"
    /\ RankReturned => Len(ret) >= 1 /\ Len(ret) <= 5
    /\ (call.op \in RankOps /\ pc = "loop") =>
          /\ idx <= Len(Universe) + 1
          /\ RankStockFetches # {} /\ RankFundFetches # {}
          /\ RankExpenseInfos # {}

\* Every step of a ranking call takes the next candidate or returns
C8_Progress ==
    (call.op \in RankOps /\ pc = "loop") =>
        \/ pc' = "loop" /\ idx' = idx + 1
        \/ pc' = "returned" /\ call' = call

\* C8: whatever each candidate's fetch and scoring do, and also when the
\* ranking routine raises before its loop, a ranking call never raises; it
\* terminates, since in its loop the pass (idx within the universe, some
\* outcome of the fetch) or the return (idx beyond it) is always possible and
\* each step either moves to the next of finitely many candidates or returns;
\* and what it returns is a list of 1 to 5 items.
C8_NeverFails == []C8_Inv /\ [][C8_Progress]_vars

\* A call that returned computed items although its last pass raised in
\* scoring
C8_Witness ==
    /\ RankReturned
    /\ last = "info_null"
    /\ \E c \in Candidates : status[c] = "ok"
    /\ \E c \in Candidates : status[c] = "skipped"
    /\ Len(ret) < 5

\* C9: with at least one success the output holds at most 5 of the computed
\* items, in non-increasing order of score, and no computed item left out has
\* a higher score than one that is in.
C9_TopByScore ==
    (RankReturned /\ recommendations # <<>>) =>
        /\ Len(ret) <= 5
        /\ \A i \in 1..Len(ret) : \E k \in 1..Len(recommendations) :
              recommendations[k] = ret[i]
        /\ \A i, j \in 1..Len(ret) : i < j => ret[i].score >= ret[j].score
        /\ \A k \in 1..Len(recommendations) :
              recommendations[k].symbol \notin Symbols(ret) =>
                 \A i \in 1..Len(ret) : recommendations[k].score <= ret[i].score

\* Six successes of differing scores: one is left out, and it is the lowest
C9_Witness ==
    /\ RankReturned
    /\ Len(recommendations) = 6
    /\ Len(ret) = 5
    /\ ret[1].score > ret[5].score
    /\ \E k \in 1..6 :
          /\ recommendations[k].symbol \notin Symbols(ret)
          /\ recommendations[k].score < ret[5].score
    /\ recommendations[1].score < recommendations[6].score

\* C10 as stated: a skipped candidate never appears in the output.
C10_NeverInOutput ==
    RankReturned =>
        \A c \in Candidates :
            status[c] = "skipped" => Universe[c].symbol \notin Symbols(ret)

C10_Inv ==
    (call.op \in RankOps /\ pc \in {"loop", "returned"}) =>
        /\ \A c \in Candidates : fetches[c] <= 1
        /\ \A c \in Candidates :
              status[c] = "skipped" =>
                 Universe[c].symbol \notin Symbols(recommendations)
        /\ (pc = "returned" /\ last # "routine_raise") =>
              /\ \A c \in Candidates : fetches[c] = 1 /\ status[c] # "pending"
              /\ recommendations # <<>> =>
                    \A c \in Candidates :
                        status[c] = "skipped" =>
                           Universe[c].symbol \notin Symbols(ret)

\* A pass whose fetch returned None, raised, or gave too short a series adds
\* nothing, marks the candidate skipped after its one fetch, and the loop
\* goes on to the next candidate.
C10_Step ==
    (idx' = idx + 1 /\ last' \in {"none", "raise", "short"}) =>
        /\ recommendations' = recommendations
        /\ status' = [status EXCEPT ![idx] = "skipped"]
        /\ fetches' = [fetches EXCEPT ![idx] = 1]
        /\ pc' = "loop"

\* C10, amended: each candidate is fetched at most once; a candidate whose
\* fetch failed or whose series is too short is never among the computed
\* recommendations, and is absent from the output whenever some candidate
\* succeeded; skipping it does not stop the loop, which evaluates every
\* candidate before it returns.
C10_SkippedOnce == []C10_Inv /\ [][C10_Step]_vars

\* A candidate was skipped and a later one still made it into the output
C10_Witness ==
    /\ RankReturned
    /\ \E c, e \in Candidates :
          /\ c < e
          /\ status[c] = "skipped"
          /\ status[e] = "ok"
          /\ Universe[e].symbol \in Symbols(ret)
    /\ \A c \in Candidates : fetches[c] = 1

---------------------------------------------------------------------------
(* Properties of the sort over append orders *)

Sorted == pc = "returned" /\ call.op = "sort_recommendations"
Scores(list) == [i \in 1..Len(list) |-> list[i].score]
Position(list, symbol) == CHOOSE k \in 1..Len(list) : list[k].symbol = symbol

---------------------------------------------------------------------------
(* Properties of a session *)

Analysed == pc = "returned" /\ call.op \in {"analyze_stock", "analyze_mutual_fund"}
FellBack == pc = "returned" /\ call.op \in {"fallback_stocks", "fallback_funds"}

C13_FreshFallback ==
    FellBack =>
        LET stocks == call.op = "fallback_stocks"
            buy == call.recommendation_type = "BUY"
            current == IF stocks THEN <<285000, 365000, 172000, 189000, 46500>>
                       ELSE <<8550, 92000, 6540, 5280, 9820>>
            target == IF stocks THEN <<300000, 385000, 185000, 200000, 50000>>
                      ELSE <<8900, 95000, 6800, 5500, 10200>>
            change == IF stocks THEN <<53, 55, 76, 58, 75>>
                      ELSE <<41, 33, 40, 42, 39>>
            reasoning ==
                IF stocks
                THEN <<"Strong refining and telecom business growth.",
                       "IT services leadership and digital transformation.",
                       "Strong banking fundamentals and digital initiatives.",
                       "Strong IT consulting and automation services.",
                       "Diversified FMCG portfolio and dividend yield.">>
                ELSE <<"Strong large-cap portfolio with consistent performance.",
                       "Diversified blue-chip equity exposure.",
                       "Well-managed large-cap fund with stable returns.",
                       "Quality large-cap stocks with growth potential.",
                       "Systematic large-cap investment approach.">>
        IN  /\ Len(ret) = 5
            /\ \A i \in 1..5 :
                  /\ ret[i].current_price = current[i]
                  /\ IF buy
                     THEN /\ ret[i].target_price = target[i] * 1000
                          /\ ret[i].price_change = change[i]
                          /\ ret[i].reasoning = reasoning[i]
                     ELSE /\ ret[i].target_price
                                = current[i] * (IF stocks THEN 950 ELSE 970)
                          /\ ret[i].price_change = IF stocks THEN -20 ELSE -15
                          /\ ret[i].reasoning
                                = IF stocks
                                  THEN "Technical indicators suggest potential downside."
                                  ELSE "Consider rebalancing portfolio allocation."

\* A BUY fallback after a SELL fallback whose list the caller had edited
C13_Witness ==
    /\ FellBack
    /\ call.op = "fallback_stocks"
    /\ call.recommendation_type = "BUY"
    /\ earlier.call.op = "fallback_stocks"
    /\ earlier.call.recommendation_type = "SELL"
    /\ earlier.ret[1].reasoning = "edited by the caller"
    /\ ret[1].target_price = 300000 * 1000

---------------------------------------------------------------------------
(* Properties of the target price *)

\* C14: the target price of every result of the two analyses is the current
\* price (or NAV) times the multiplier the mapper chose for the total score
\* (the fixed 1.05 or 1.03 of the fallback result), the multiplier is
\* positive, and dividing the target by it gives the current price back.
C14_TargetRoundTrip ==
    Analysed =>
        LET stock == call.op = "analyze_stock"
            price == IF stock THEN call.stock_data.close ELSE call.fund_data.close
            multiplier ==
                IF ret.fallback THEN (IF stock THEN 1050 ELSE 1030)
                ELSE IF stock
                THEN StockRecommendation(ret.total_score).target_multiplier
                ELSE FundRecommendation(ret.total_score).target_multiplier
        IN  /\ multiplier > 0
            /\ ~ret.fallback => ret.target_multiplier = multiplier
            /\ ret.target_price = price * multiplier
            /\ ret.target_price \div multiplier = price
            /\ ret.target_price % multiplier = 0

\* A computed fund SELL below the threshold: a multiplier under 0.92
C14_Witness ==
    /\ Analysed
    /\ call.op = "analyze_mutual_fund"
    /\ ~ret.fallback
    /\ ret.recommendation = "SELL"
    /\ ret.target_multiplier < 920
    /\ ret.target_price \div ret.target_multiplier = call.fund_data.close

---------------------------------------------------------------------------
(* Properties of the indicator library *)

Computed(ops) == pc = "returned" /\ call.op \in ops
StrictlyIncreasing(close) == \A t \in 2..Len(close) : close[t] > close[t - 1]
NonDecreasing(close) == \A t \in 2..Len(close) : close[t] >= close[t - 1]
Is(x, n) == ~x.nan /\ x.num = n * x.den
SameValue(x, y) == ~x.nan /\ ~y.nan /\ x.num * y.den = y.num * x.den

\* The highest close from the first bar to bar t
PeakTo(close, t) ==
    CHOOSE m \in {close[k] : k \in 1..t} : \A k \in 1..t : close[k] <= m

\* C15: the RSI of a strictly increasing series of 14 bars or more, the
\* 20-bar series among them, is 100, in the analysis and in
\* calculate_technical_indicators.
C15_RsiSaturates ==
    (Computed({"calculate_technical_indicators", "stock_indicators"})
        /\ Len(call.close) >= 14 /\ StrictlyIncreasing(call.close))
    => Is(ret.rsi, 100)

\* calculate_technical_indicators on 20 bars that rise by 1 a bar
C15_Witness ==
    /\ Computed({"calculate_technical_indicators"})
    /\ call.close = Rising(20, 1)
    /\ SumOver(Losses(call.close), 7, 20) = 0
    /\ SumOver(Gains(call.close), 7, 20) > 0
    /\ Is(ret.rsi, 100)

\* What C16 says of every series but the halved ones: the max drawdown is
\* the least of (close[t] / peak to t - 1) * 100, is never positive, and is 0
\* for a non-decreasing series.
C16_LeastOfRatios ==
    LET close == call.close
        dd == ret.max_drawdown
    IN  /\ ~dd.nan
        /\ dd.num <= 0
        /\ NonDecreasing(close) => Is(dd, 0)
        /\ \A t \in 1..Len(close) :
              dd.num * PeakTo(close, t)
                 <= (close[t] - PeakTo(close, t)) * 100 * dd.den
        /\ Len(close) > 0 =>
              \E t \in 1..Len(close) :
                 dd.num * PeakTo(close, t)
                    = (close[t] - PeakTo(close, t)) * 100 * dd.den

\* The last close is half of the highest close before it
EndsAtHalfOfPeak(close) ==
    Len(close) >= 2 /\ 2 * close[Len(close)] = PeakTo(close, Len(close) - 1)

\* C16 as stated: ... and it is -50 for a series whose last value is half
\* of its earlier peak.
C16_DrawdownAsStated ==
    Computed({"calculate_fund_performance"}) =>
        /\ C16_LeastOfRatios
        /\ EndsAtHalfOfPeak(call.close) => Is(ret.max_drawdown, -50)

\* C16, amended: ... and for a series whose last value is half of its earlier
\* peak it is -50 or lower: -50 when no bar stands lower than half of the
\* peak before it, lower when one does.
C16_Drawdown ==
    Computed({"calculate_fund_performance"}) =>
        /\ C16_LeastOfRatios
        /\ EndsAtHalfOfPeak(call.close) =>
              /\ ret.max_drawdown.num <= -50 * ret.max_drawdown.den
              /\ Is(ret.max_drawdown, -50)
                    <=> \A t \in 1..Len(call.close) :
                           2 * call.close[t] >= PeakTo(call.close, t)

\* A climb of 19 bars and a last bar at half of the peak
C16_Witness ==
    /\ Computed({"calculate_fund_performance"})
    /\ call.close = Halving(20)
    /\ EndsAtHalfOfPeak(call.close)
    /\ Is(ret.max_drawdown, -50)

\* C17 as stated: on a series shorter than the lookback the RSI is 50, the
\* SMA-50 is the SMA-20 or the current price, and the SMA-20 is the mean of
\* the series or the current price, in the analysis and in
\* calculate_technical_indicators.
C17_ShortSeriesNeutral ==
    (Computed({"calculate_technical_indicators", "stock_indicators"})
        /\ Len(call.close) > 0)
    => LET n == Len(call.close)
           price == Frac(call.close[n], 1)
           mean == Frac(SumOver(call.close, 1, n), n)
       IN  /\ n < 14 => Is(ret.rsi, 50)
           /\ n < 50 => \/ SameValue(ret.sma_50, ret.sma_20)
                        \/ SameValue(ret.sma_50, price)
           /\ n < 20 => \/ SameValue(ret.sma_20, mean)
                        \/ SameValue(ret.sma_20, price)

\* C18 as stated: wherever it is computed, the Sharpe ratio of a series whose
\* returns have zero deviation is 0.
C18_SharpeZeroOnZeroStd ==
    (Computed({"calculate_fund_performance", "fund_analysis_sharpe",
               "fund_ranker_sharpe"})
        /\ ReturnsStd(call.close) = "zero")
    => ret.sharpe_ratio = "zero"

---------------------------------------------------------------------------
(* Properties of the single-symbol entry points *)

EntryOps ==
    {"analyze_individual_stock", "analyze_individual_mutual_fund",
     "analyze_stock_detailed"}
EntryReturned == pc = "returned" /\ call.op \in EntryOps
Called(name) == \E i \in 1..Len(ret.invoked) : ret.invoked[i] = name

\* A failed price fetch shows the could-not-fetch error, and neither the
\* analysis nor any later step is invoked.
C19_FetchFailureStops ==
    (EntryReturned /\ call.fetched.none)
        => /\ ret.shown = <<CouldNotFetch>>
           /\ Len(ret.invoked) = 1
           /\ ~Called("analyze_stock") /\ ~Called("analyze_mutual_fund")

\* C19: at a single-symbol entry point a failed price fetch shows the
\* could-not-fetch error and the analysis is not invoked, and this is the
\* only failure the entry point shows: when the fetch gave a series, no error
\* is shown, whatever the info, the sentiment and the series are.
C19_OnlyFetchFailureShown ==
    EntryReturned
        => /\ C19_FetchFailureStops
           /\ ~call.fetched.none => ret.shown = <<>>

---------------------------------------------------------------------------
(* Properties of the lists of the fund analysis *)

\* The texts of the rules that matched, in declaration order; a rule is
\* <<condition, text>>
MatchedTexts(rules) ==
    LET matched == SelectSeq(rules, LAMBDA r : r[1])
    IN  [i \in 1..Len(matched) |-> matched[i][2]]

FirstN(list, n) == [i \in 1..Min(n, Len(list)) |-> list[i]]
IsPrefix(a, b) == Len(a) <= Len(b) /\ a = FirstN(b, Len(a))

\* The inputs of the analysed fund as the rules read them: percentages in
\* ninths (return, volatility) and hundredths (expense ratio), assets in
\* millions
FundExpense == Get(call.fund_info.annualReportExpenseRatio, 100).v
FundAssets == Get(call.fund_info.totalAssets, 0).v
FundSharpeNum ==
    IF call.fund_data.volatility > 0 THEN call.fund_data.annual_return - Pct(2) ELSE 0
FundSharpeDen ==
    IF call.fund_data.volatility > 0 THEN call.fund_data.volatility ELSE 1

StrengthRules ==
    <<<<FundSharpeNum > FundSharpeDen, "Strong risk-adjusted returns">>,
      <<FundExpense < 75, "Low cost structure">>,
      <<FundAssets > 1000, "Large asset base provides stability">>,
      <<call.fund_data.volatility < Pct(15), "Low volatility provides stability">>,
      <<call.fund_data.annual_return > Pct(8), "Consistent performance track record">>>>

WeaknessRules ==
    <<<<FundExpense > 150, "High expense ratio reduces returns">>,
      <<call.fund_data.volatility > Pct(20), "High volatility increases risk">>,
      <<call.fund_data.annual_return < Pct(5), "Below-average performance">>,
      <<2 * FundSharpeNum < FundSharpeDen, "Poor risk-adjusted returns">>,
      <<FundAssets < 100, "Small asset base may limit liquidity">>>>

RiskRules ==
    <<<<call.fund_data.volatility > Pct(20),
        "High volatility may result in significant losses">>,
      <<FundExpense > 150, "High fees erode long-term returns">>,
      <<call.fund_data.bars >= 21
          /\ 100 * call.fund_data.close < 90 * call.fund_data.close_21,
        "Recent poor performance indicates potential issues">>>>

\* The lists are cut to 4, 4 and 3 items, and each is a prefix of the texts
\* of its rules that matched.
C20_PrefixOfMatched ==
    FundAnalysed =>
        /\ Len(ret.risk_factors) <= 4
        /\ Len(ret.fund_strengths) <= 4
        /\ Len(ret.fund_weaknesses) <= 3
        /\ IsPrefix(ret.risk_factors, MatchedTexts(RiskRules))
        /\ IsPrefix(ret.fund_strengths, MatchedTexts(StrengthRules))
        /\ IsPrefix(ret.fund_weaknesses, MatchedTexts(WeaknessRules))

\* C20: in the fund analysis result risk_factors has at most 4 items,
\* fund_strengths at most 4 and fund_weaknesses at most 3, and each is the
\* first items, in rule declaration order, of the list built before the cut:
\* for strengths and weaknesses the texts of the matched rules, or the two
\* default texts when no rule matched; for risk factors the texts of the
\* matched rules followed by the three general risks, which are dropped first.
C20_CappedPrefix ==
    FundAnalysed =>
        LET strengths == MatchedTexts(StrengthRules)
            weaknesses == MatchedTexts(WeaknessRules)
            risks == MatchedTexts(RiskRules)
        IN  /\ Len(ret.risk_factors) <= 4
            /\ Len(ret.fund_strengths) <= 4
            /\ Len(ret.fund_weaknesses) <= 3
            /\ ret.risk_factors
                 = FirstN(risks \o <<"Market risk", "Interest rate risk",
                                     "Manager risk">>, 4)
            /\ ret.fund_strengths
                 = FirstN(IF strengths = <<>>
                          THEN <<"Professional management", "Diversification">>
                          ELSE strengths, 4)
            /\ ret.fund_weaknesses
                 = FirstN(IF weaknesses = <<>>
                          THEN <<"Market dependency", "Interest rate sensitivity">>
                          ELSE weaknesses, 3)

\* A fund on which all five weakness rules and all three risk rules match:
\* the last two weaknesses and the last two general risks are dropped
C20_Witness ==
    /\ FundAnalysed
    /\ Len(MatchedTexts(WeaknessRules)) = 5
    /\ Len(MatchedTexts(RiskRules)) = 3
    /\ ret.fund_weaknesses = <<"High expense ratio reduces returns",
                               "High volatility increases risk",
                               "Below-average performance">>
    /\ ret.risk_factors[4] = "Market risk"

\* A fund on which all five strength rules match: the last one is dropped
C20_AllStrengths ==
    /\ FundAnalysed
    /\ Len(MatchedTexts(StrengthRules)) = 5
    /\ Len(ret.fund_strengths) = 4
    /\ ret.fund_strengths[4] = "Low volatility provides stability"

---------------------------------------------------------------------------
(* Properties of the defaults of the factor lists *)

\* The inputs of the analysed equity as the rules read them
StockPe == Get(call.company_info.trailingPE, 20)
StockCap == Get(call.company_info.marketCap, 0).v
StockSentiment ==
    IF call.news_sentiment.k = "num" THEN call.news_sentiment.v ELSE 50
StockAboveSma20 ==
    call.stock_data.bars >= 20 /\ call.stock_data.close > call.stock_data.sma_20
StockHighVolume ==
    /\ call.stock_data.bars >= 20 /\ call.stock_data.avg_volume > 0
    /\ 10 * call.stock_data.recent_volume > 12 * call.stock_data.avg_volume

StockRiskRules ==
    <<<<call.stock_data.volatility > 30,
        "High volatility increases investment risk">>,
      <<StockPe.k = "num" /\ StockPe.v > 30,
        "High valuation multiples vulnerable to market corrections">>,
      <<StockSentiment < 40,
        "Negative sentiment could impact near-term performance">>,
      <<StockCap < 20, "Small-cap stock subject to higher volatility">>>>

StockKeyRules ==
    <<<<StockHighVolume, "Strong volume confirms price action">>,
      <<StockAboveSma20, "Positive momentum above 20-day average">>,
      <<StockSentiment > 60, "Favorable news coverage">>,
      <<StockPe.k = "num" /\ StockPe.v # 0 /\ StockPe.v < 20,
        "Reasonable valuation metrics">>>>

\* list is the default pair exactly when no rule of the table matched, and
\* the matched texts otherwise
DefaultIffNoMatch(list, rules, default) ==
    /\ list # <<>>
    /\ (MatchedTexts(rules) = <<>>) <=> (list = default)
    /\ MatchedTexts(rules) = <<>> => Len(list) = 2

\* Each of the five factor lists is a 2-item default exactly when none of its
\* rules matched, and is never empty.
C21_DefaultIffNoMatch ==
    /\ StockAnalysed =>
         /\ DefaultIffNoMatch(ret.risk_factors, StockRiskRules,
                              <<"Market volatility", "Economic conditions">>)
         /\ DefaultIffNoMatch(ret.key_factors, StockKeyRules,
                              <<"Price momentum", "Market conditions">>)
    /\ FundAnalysed =>
         /\ DefaultIffNoMatch(ret.fund_strengths, StrengthRules,
                              <<"Professional management", "Diversification">>)
         /\ DefaultIffNoMatch(ret.fund_weaknesses, WeaknessRules,
                              <<"Market dependency", "Interest rate sensitivity">>)
         /\ MatchedTexts(RiskRules) = <<>> => Len(ret.risk_factors) = 2

\* C21: the equity risk_factors and key_factors and the fund strengths and
\* weaknesses are a 2-item default exactly when none of their rules matched;
\* the fund risk_factors has no default: the three general risks follow the
\* matched texts in every result, so it has the three of them when no rule
\* matched. No list is ever empty.
C21_DefaultsButFundRisks ==
    /\ StockAnalysed =>
         /\ DefaultIffNoMatch(ret.risk_factors, StockRiskRules,
                              <<"Market volatility", "Economic conditions">>)
         /\ DefaultIffNoMatch(ret.key_factors, StockKeyRules,
                              <<"Price momentum", "Market conditions">>)
    /\ FundAnalysed =>
         /\ DefaultIffNoMatch(ret.fund_strengths, StrengthRules,
                              <<"Professional management", "Diversification">>)
         /\ DefaultIffNoMatch(ret.fund_weaknesses, WeaknessRules,
                              <<"Market dependency", "Interest rate sensitivity">>)
         /\ ret.risk_factors # <<>>
         /\ MatchedTexts(RiskRules) = <<>> =>
              ret.risk_factors = <<"Market risk", "Interest rate risk",
                                   "Manager risk">>

\* An equity on which no risk rule and no key rule matched
C21_Witness ==
    /\ StockAnalysed
    /\ MatchedTexts(StockRiskRules) = <<>>
    /\ MatchedTexts(StockKeyRules) = <<>>
    /\ ret.risk_factors = <<"Market volatility", "Economic conditions">>
    /\ ret.key_factors = <<"Price momentum", "Market conditions">>

\* A fund on which no risk rule matched
C21_FundWithoutRisks ==
    FundAnalysed /\ MatchedTexts(RiskRules) = <<>> /\ Len(ret.risk_factors) = 3

---------------------------------------------------------------------------
(* Properties of the rules of the equity score *)

\* The trend contribution, in half points: what is left of technical_score
\* without the RSI and the volume contributions
TrendContribution ==
    ret.technical_score - RsiScore(Rsi(call.stock_data))
                        - VolumeScore(VolumeTrend(call.stock_data))

\* C22: the trend contribution is +2 exactly for a price above SMA20 and
\* SMA50, +1 exactly for a price above SMA20 only, -2 exactly for a price
\* below SMA20 and SMA50, -1 exactly for a price below SMA20 only; a price
\* that is not below SMA20 never gets a negative contribution.
C22_TrendTable ==
    StockAnalysed =>
        LET price == call.stock_data.close
            sma_20 == Sma20(call.stock_data)
            sma_50 == Sma50(call.stock_data)
        IN  /\ (TrendContribution = 4) <=> (price > sma_20 /\ price > sma_50)
            /\ (TrendContribution = 2) <=> (price > sma_20 /\ ~(price > sma_50))
            /\ (TrendContribution = -4) <=> (price < sma_20 /\ price < sma_50)
            /\ (TrendContribution = -2) <=> (price < sma_20 /\ ~(price < sma_50))
            /\ ~(price < sma_20) => TrendContribution >= 0

\* What the code does: the last branch is an else, taken by a price equal to
\* SMA20 as well
C22_TrendWithElse ==
    StockAnalysed =>
        LET price == call.stock_data.close
            sma_20 == Sma20(call.stock_data)
            sma_50 == Sma50(call.stock_data)
        IN  /\ (TrendContribution = 4) <=> (price > sma_20 /\ price > sma_50)
            /\ (TrendContribution = 2) <=> (price > sma_20 /\ ~(price > sma_50))
            /\ (TrendContribution = -4) <=> (price < sma_20 /\ price < sma_50)
            /\ (TrendContribution = -2) <=>
                   \/ price < sma_20 /\ ~(price < sma_50)
                   \/ price = sma_20

\* The number of the conditions that hold
CountTrue(conds) == Cardinality({i \in 1..Len(conds) : conds[i]})

\* C23: the sentiment adjustment is +1 above 0.7, +0.5 above 0.6 up to 0.7,
\* -1 below 0.3, -0.5 from 0.3 to below 0.4 and 0 otherwise (half points,
\* sentiment in hundredths); an absent signal (None, or no sentiment_score)
\* counts as 0.5 and adds 0; the four bands never overlap.
C23_SentimentTable ==
    StockAnalysed =>
        LET news == call.news_sentiment
            absent == news.k \in {"none", "absent"}
            s == IF absent THEN 50 ELSE news.v
            a == ret.sentiment_adjustment
        IN  /\ s > 70 => a = 2
            /\ (s > 60 /\ s <= 70) => a = 1
            /\ s < 30 => a = -2
            /\ (s >= 30 /\ s < 40) => a = -1
            /\ (s >= 40 /\ s <= 60) => a = 0
            /\ absent => a = 0
            /\ CountTrue(<<s > 70, s > 60 /\ s <= 70, s < 30,
                           s >= 30 /\ s < 40>>) <= 1
            /\ ret.total_score = ret.technical_score + ret.fundamental_score + a

\* A sentiment of exactly 0.7, which is in the +0.5 band
C23_Witness ==
    StockAnalysed /\ call.news_sentiment = Num(70) /\ ret.sentiment_adjustment = 1

\* An equity analysed without a sentiment signal
C23_AbsentSentiment ==
    /\ StockAnalysed
    /\ call.news_sentiment.k \in {"none", "absent"}
    /\ ret.sentiment_adjustment = 0

\* The text is in the list
Has(list, text) == \E i \in 1..Len(list) : list[i] = text

\* C24: an equity analysed with an empty info (no P/E, no market cap) gets a
\* fundamental score of 0, so its total is technical score plus sentiment
\* adjustment, and no valuation or size text is in its risk or key factors.
C24_AbsentFundamentalsNeutral ==
    (/\ StockAnalysed
     /\ call.company_info.trailingPE = Absent
     /\ call.company_info.marketCap = Absent)
        => /\ ret.fundamental_score = 0
           /\ ret.total_score = ret.technical_score + ret.sentiment_adjustment
           /\ ~Has(ret.risk_factors,
                   "High valuation multiples vulnerable to market corrections")
           /\ ~Has(ret.risk_factors, "Small-cap stock subject to higher volatility")
           /\ ~Has(ret.key_factors, "Reasonable valuation metrics")

\* What the code does with an empty info: the P/E counts as 20 (+1) and the
\* market cap as 0, a small cap (+1 and the small-cap risk text)
C24_AbsentFundamentalsScored ==
    (/\ StockAnalysed
     /\ call.company_info.trailingPE = Absent
     /\ call.company_info.marketCap = Absent)
        => /\ ret.fundamental_score = 4
           /\ ret.total_score = ret.technical_score + 4 + ret.sentiment_adjustment
           /\ Has(ret.risk_factors, "Small-cap stock subject to higher volatility")
           /\ ~Has(ret.key_factors, "Reasonable valuation metrics")

---------------------------------------------------------------------------
(* Properties of the scores of the stock ranker *)

\* A candidate of the stock ranker was evaluated under the search and appended
StockEvaluated(recommendation_type) ==
    /\ pc = "returned"
    /\ call.op = "evaluate_stock"
    /\ call.recommendation_type = recommendation_type
    /\ ret # <<>>

\* The SELL rule set, in half points, on the close, the 20-day average, the
\* close of 21 bars ago and the volatility alone
SellTable(close, sma_20, close_21, volatility) ==
    (IF 100 * close < 95 * sma_20 THEN 4
     ELSE IF 100 * close < 98 * sma_20 THEN 2
     ELSE IF 100 * close > 105 * sma_20 THEN -2
     ELSE 0)
    + (IF 100 * close < 90 * close_21 THEN 4
       ELSE IF 100 * close > 110 * close_21 THEN -2
       ELSE 0)
    + (IF volatility > 40 THEN 2 ELSE 0)

\* C25: the SELL-search score of a candidate is given by momentum against
\* SMA20, the 1-month return and the volatility alone, whatever its volume
\* ratio and its sector are; it is a rule set of its own, so it need not be
\* minus the BUY-search score of the same inputs (the witness).
C25_SellScoreOwnRules ==
    StockEvaluated("SELL") =>
        LET d == call.fetched.d
        IN  ret[1].score = SellTable(d.close, d.sma_20, d.close_21, d.volatility)

\* A candidate that scores 0 under SELL and positive under BUY, in a
\* technology sector and with a high volume ratio
C25_Witness ==
    /\ StockEvaluated("SELL")
    /\ ret[1].score = 0
    /\ StockBuyScore(call.fetched.d, call.entry.sector) > 0
    /\ ret[1].score # -StockBuyScore(call.fetched.d, call.entry.sector)
    /\ call.entry.sector = "Technology"
    /\ 10 * call.fetched.d.recent_volume > 12 * call.fetched.d.avg_volume

---------------------------------------------------------------------------
(* Properties of the RSI rule of the equity score *)

\* The RSI contribution, in half points: what is left of technical_score
\* without the trend and the volume contributions
RsiContribution ==
    ret.technical_score
    - TrendScore(call.stock_data.close, Sma20(call.stock_data),
                 Sma50(call.stock_data))
    - VolumeScore(VolumeTrend(call.stock_data))

\* C26: for every series of 14 bars or more whose 14-bar average loss is
\* zero, a constant series (average gain zero as well) included, the RSI is
\* 100, never undefined, and the RSI > 70 rule takes a point off.
C26_ZeroLossSaturates ==
    (StockAnalysed /\ call.stock_data.bars >= 14 /\ call.stock_data.avg_loss = 0)
        => /\ ~Rsi(call.stock_data).nan
           /\ Rsi(call.stock_data).num = 100 * Rsi(call.stock_data).den
           /\ RsiContribution = -2

\* What the code does: the RSI is 100 when there was a gain, and undefined
\* (0 / 0) on a series without gain and loss, where no RSI rule applies
C26_ZeroLossByGain ==
    (StockAnalysed /\ call.stock_data.bars >= 14 /\ call.stock_data.avg_loss = 0)
        => IF call.stock_data.avg_gain > 0
           THEN /\ ~Rsi(call.stock_data).nan
                /\ Rsi(call.stock_data).num = 100 * Rsi(call.stock_data).den
                /\ RsiContribution = -2
           ELSE Rsi(call.stock_data).nan /\ RsiContribution = 0

---------------------------------------------------------------------------
(* Properties of the fund score *)

\* The annual-return and the Sharpe contributions on the inputs of the call,
\* in half points, without a -2 branch
AnnualContribution ==
    IF call.fund_data.annual_return > Pct(12) THEN 4
    ELSE IF call.fund_data.annual_return > Pct(8) THEN 2
    ELSE IF call.fund_data.annual_return < Pct(2) THEN -2
    ELSE 0

SharpeContribution ==
    IF 2 * FundSharpeNum > 3 * FundSharpeDen THEN 4
    ELSE IF FundSharpeNum > FundSharpeDen THEN 2
    ELSE IF 2 * FundSharpeNum < FundSharpeDen THEN -2
    ELSE 0

VolatilityContribution ==
    IF call.fund_data.volatility < Pct(10) THEN 2
    ELSE IF call.fund_data.volatility > Pct(25) THEN -2
    ELSE 0

\* C27: in the fund analysis the annual-return rule and the Sharpe rule
\* contribute +2, +1, 0 or -1 only (their -2 branches are never taken: a
\* negative return or Sharpe ratio gets the -1 of the branch before), so
\* performance_score is never below -3 and the total lies in [-7, 9] (half
\* points: -6, -14 and 18).
C27_NoMinusTwo ==
    FundAnalysed =>
        /\ ret.performance_score
             = AnnualContribution + SharpeContribution + VolatilityContribution
        /\ call.fund_data.annual_return < 0 => AnnualContribution = -2
        /\ FundSharpeNum < 0 => SharpeContribution = -2
        /\ ret.performance_score >= -6
        /\ ret.cost_score \in -4..4
        /\ ret.size_score \in -2..2
        /\ ret.momentum_score \in -2..2
        /\ ret.total_score = ret.performance_score + ret.cost_score
                             + ret.size_score + ret.momentum_score
        /\ ret.total_score >= -14 /\ ret.total_score <= 18

\* A fund with a negative annual return and a negative Sharpe ratio, whose
\* performance score is the lowest one, -3
C27_Witness ==
    /\ FundAnalysed
    /\ call.fund_data.annual_return < 0
    /\ FundSharpeNum < 0
    /\ ret.performance_score = -6

---------------------------------------------------------------------------
(* Properties of the target prices *)

\* A candidate of the fund ranker was evaluated under the search and appended
FundEvaluated(recommendation_type) ==
    /\ pc = "returned"
    /\ call.op = "evaluate_fund"
    /\ call.recommendation_type = recommendation_type
    /\ ret # <<>>

\* C28: for a positive current price the target lies on the side the action
\* or the search says, for every reachable score: the analyses give a target
\* above the price for BUY and between 0 and the price for SELL; an item of a
\* BUY search has a target of at least 1.05 (stocks) or 1.03 (funds) times
\* the price, whatever its score, and an item of a SELL search a target above
\* 0 and at most 0.95 or 0.97 times the price (targets are in thousandths of
\* the price unit).
C28_TargetOnItsSide ==
    /\ (StockAnalysed /\ call.stock_data.close > 0) =>
         /\ ret.recommendation = "BUY" =>
              ret.target_price > 1000 * call.stock_data.close
         /\ ret.recommendation = "SELL" =>
              /\ ret.target_price > 0
              /\ ret.target_price < 1000 * call.stock_data.close
    /\ (FundAnalysed /\ call.fund_data.close > 0) =>
         /\ ret.recommendation = "BUY" =>
              ret.target_price > 1000 * call.fund_data.close
         /\ ret.recommendation = "SELL" =>
              /\ ret.target_price > 0
              /\ ret.target_price < 1000 * call.fund_data.close
    /\ (StockEvaluated("BUY") /\ ret[1].current_price > 0) =>
         ret[1].target_price >= 1050 * ret[1].current_price
    /\ (StockEvaluated("SELL") /\ ret[1].current_price > 0) =>
         /\ ret[1].target_price > 0
         /\ ret[1].target_price <= 950 * ret[1].current_price
    /\ (FundEvaluated("BUY") /\ ret[1].current_price > 0) =>
         ret[1].target_price >= 1030 * ret[1].current_price
    /\ (FundEvaluated("SELL") /\ ret[1].current_price > 0) =>
         /\ ret[1].target_price > 0
         /\ ret[1].target_price <= 970 * ret[1].current_price

\* A stock of a BUY search with a negative score: its target is 1.05 times
\* its price
C28_Witness ==
    /\ StockEvaluated("BUY")
    /\ ret[1].score < 0
    /\ ret[1].current_price > 0
    /\ ret[1].target_price = 1050 * ret[1].current_price

\* The lowest targets: an equity SELL at score -5.5 and the highest scores of
\* the SELL searches
C28_LowestEquityTarget ==
    StockAnalysed /\ ret.total_score = -11 /\ ret.target_multiplier = 830
C28_HighestStockSellScore ==
    StockEvaluated("SELL") /\ ret[1].score = 10
C28_HighestFundSellScore ==
    FundEvaluated("SELL") /\ ret[1].score = 14

---------------------------------------------------------------------------
(* Properties of the ranker's choice between computed and canned items *)

\* The candidates the loop evaluated and appended
Succeeded == {c \in Candidates : status[c] = "ok"}

CannedList ==
    IF IsStockRank
    THEN get_fallback_stock_recommendations(call.recommendation_type)
    ELSE get_fallback_mf_recommendations(call.recommendation_type)

\* C29: a ranking call with k >= 1 evaluated candidates returns min(5, k)
\* items, each of them computed by the loop for a distinct evaluated
\* candidate (none canned, and none held back for a low score); it returns
\* the canned list exactly when no candidate was evaluated, which includes
\* the ranking routine raising before its loop.
C29_ComputedOrCanned ==
    RankReturned =>
        LET k == Cardinality(Succeeded)
        IN  /\ k = Len(recommendations)
            /\ k >= 1 =>
                 /\ Len(ret) = Min(5, k)
                 /\ \A i \in 1..Len(ret) :
                      /\ "score" \in DOMAIN ret[i]
                      /\ \E c \in Succeeded : Universe[c].symbol = ret[i].symbol
                      /\ \E j \in 1..Len(recommendations) : recommendations[j] = ret[i]
                 /\ Cardinality(Symbols(ret)) = Len(ret)
            /\ (ret = CannedList) <=> (k = 0)
            /\ last = "routine_raise" => (k = 0 /\ ret = CannedList)

\* A BUY search with three evaluated candidates and three skipped ones: the
\* three are returned, one of them with a negative score
C29_Witness ==
    /\ RankReturned
    /\ call.recommendation_type = "BUY"
    /\ Cardinality(Succeeded) = 3
    /\ Len(ret) = 3
    /\ ret[3].score < 0
    /\ \E c \in Candidates : status[c] = "skipped"

\* A call whose routine raised before the loop
C29_RoutineRaised ==
    RankReturned /\ last = "routine_raise" /\ ret = CannedList

---------------------------------------------------------------------------
(* Properties of the fallback of the analyses *)

AnalysisEnded(op) == call.op = op /\ pc \in {"returned", "raised"}

\* The fallback recommendation on a last close: HOLD, confidence 0.5, target
\* the close times the multiplier (in thousandths)
IsFallback(close, multiplier) ==
    /\ pc = "returned"
    /\ ret.fallback
    /\ ret.recommendation = "HOLD"
    /\ ret.confidence = 500
    /\ ret.target_price = close * multiplier

\* C30: analyze_stock and analyze_mutual_fund raise exactly when the price
\* series is empty; on a non-empty series a failure of the rule-based
\* analysis (a market cap, an expense ratio or a total assets of None) gives
\* the fallback recommendation: HOLD, confidence 0.5, target 1.05 (stock) or
\* 1.03 (fund) times the last close; without such a failure the result is
\* the rule-based one.
C30_FailureAbsorbed ==
    /\ AnalysisEnded("analyze_stock") =>
         /\ (pc = "raised") <=> (call.stock_data.bars = 0)
         /\ call.stock_data.bars > 0 =>
              IF call.company_info.marketCap = Null
              THEN IsFallback(call.stock_data.close, 1050)
              ELSE ~ret.fallback
    /\ AnalysisEnded("analyze_mutual_fund") =>
         /\ (pc = "raised") <=> (call.fund_data.bars = 0)
         /\ call.fund_data.bars > 0 =>
              IF \/ call.fund_info.annualReportExpenseRatio = Null
                 \/ call.fund_info.totalAssets = Null
              THEN IsFallback(call.fund_data.close, 1030)
              ELSE ~ret.fallback

\* An equity with a market cap of None and a P/E of 8 on 60 bars: the
\* fallback, 1.05 times the close of 110.00
C30_Witness ==
    /\ AnalysisEnded("analyze_stock")
    /\ call.stock_data.bars = 60
    /\ call.company_info.marketCap = Null
    /\ call.company_info.trailingPE = Num(8)
    /\ IsFallback(11000, 1050)
    /\ ret.target_price = 11550000

\* The calls that raise: on an empty series
C30_EmptyRaises ==
    /\ AnalysisEnded("analyze_mutual_fund")
    /\ pc = "raised"
    /\ call.fund_data.bars = 0

============================================================================
